---- MODULE Spec2Model ----
(***************************************************************************)
(* Model of the DAG execution subsystem of praxis-mcp:                     *)
(* src/src/core/dag_executor.py (DAGExecutor) together with the            *)
(* collaborators it drives (DAGState, DAGValidator, SuspendContext,        *)
(* CheckpointManager).  One executeDAG run is a supervising control loop   *)
(* (the normal phase, then the finally phase, then the finally: block of   *)
(* executeDAG) plus one asyncio task per started step.  asyncio is         *)
(* cooperative: a coroutine runs without interruption from one await to    *)
(* the next, so every action below is the code between two awaits.         *)
(***************************************************************************)
EXTENDS Integers, Sequences, FiniteSets, TLC

(***************************************************************************)
(* Bounds of the model and constants of the program.                       *)
(***************************************************************************)
Steps == {1, 2, 3}            \* declared steps, named by their step_number
MaxWorkers == 2               \* max_workers ranges over 1..MaxWorkers
MaxFaulty == 2                \* at most this many steps have a plugin that does not succeed
MaxConditional == 1           \* at most this many conditional dependencies per pipeline
MaxItems == 2                 \* the collection of a loop holds 0..MaxItems items
MaxCount == 1                 \* the count of a loop ranges over 0..MaxCount
MaxIterations == 2            \* max_iterations of a condition loop ranges over 1..MaxIterations
MaxBodySteps == 2             \* the body of a loop holds this many steps
MaxArtifacts == 2             \* a plugin call records at most this many artifacts
MaxCalls == 2                 \* the MCP server handles at most this many tools/call requests
MaxNames == 3                 \* get_execution_order is given at most this many names
MaxClock == 1                 \* the clock of the MCP server advances by at most this many seconds
RETRY_DELAY == 1              \* dag_executor.py: RETRY_DELAY = 1.0
max_retries == 3              \* _run_with_retries(..., max_retries: int = 3)

\* What one plugin does on every call (plugins are deterministic).
\*   ok         returns an output
\*   PluginError / PluginInputError / RetryablePluginError / Exception  raises it
\*   PluginSuspendedException  raises it unless resume data for the step is in the context
\*   init_error the step registry cannot build the plugin (get_plugin raises)
\*   loop       the step has a loop_config: no plugin is called, the loop is executed
PluginKinds == {"ok", "PluginError", "PluginInputError", "RetryablePluginError",
                "Exception", "PluginSuspendedException", "init_error", "loop"}

\* StepStatus
PENDING == "pending"
RUNNING == "running"
COMPLETED == "completed"
FAILED == "failed"
SKIPPED == "skipped"
SUSPENDED == "suspended"
StepStatus == {PENDING, RUNNING, COMPLETED, FAILED, SKIPPED, SUSPENDED}

VARIABLES
    steps,              \* the StepConfig list: step -> [depends_on, fail_on_error, is_finally, plugin]
    max_workers,        \* DAGExecutor.max_workers
    state,              \* DAGState: step -> StepStatus
    step_error,         \* DAGState: step -> whether StepState.error is set
    context,            \* context[step_name]: "absent", or the recorded output
    resume_data,        \* context["<step>_resume_data"]: "absent", "partial", "complete", "complete_nodata"
    tasks,              \* the tasks dict and the asyncio state of each task
    attempt,            \* the attempt argument of the running _run_with_retries call
    invocations,        \* how often the plugin of a step was invoked in this run
    delays,             \* the sleeps a step made between attempts, in order
    started,            \* how often _create_step_task was called for a step in this run
    semaphore,          \* DAGExecutor._semaphore._value
    pc,                 \* where the supervising coroutine (executeDAG) is
    normal_phase_error, \* executeDAG's normal_phase_error: "none" or the kind of error
    error_step,         \* the step normal_phase_error is about (0: none)
    finally_errors,     \* executeDAG's finally_errors: step -> number of entries it caused
    suspend_context,    \* SuspendContext.suspended_steps
    checkpoint,         \* the checkpoint of the task: NoCheckpoint or the snapshot
    outcome,            \* how executeDAG ended: "none", "returned" or the exception raised
    resume_pc,          \* where each resume_from_checkpoint call is
    resume_flag,        \* CheckpointManager: the resume flag of the checkpoint
    restores,           \* how often each resume_from_checkpoint call restored the DAGState
    reference,          \* the COMPLETED steps of the run in which no plugin suspends
    progress,           \* step -> the statuses of the StepProgress events the callback got in this executeDAG call
    summaries,          \* the "pipeline_summary" events the callback got in this executeDAG call
    loop_config,        \* the LoopConfig of the loop step (NoLoopConfig: the pipeline has none)
    items,              \* _execute_collection_or_count_loop: len(items)
    loop_counter,       \* the index i of the for loop, loop_counter of the while loop
    iterations,         \* the outcome of every _run_loop_body call of the loop, in order
    any_iteration_failed, \* any_iteration_failed of the running loop
    condition_value,    \* the truthiness of loop_context[loop_config.condition]
    body_semaphore,     \* _semaphore._value of the DAGExecutor that runs the loop body
    body_invocations,   \* the plugin calls the body executor of this iteration has started
    history_file,       \* TaskManager: the "tasks" map of task_history.json
    file_lock,          \* TaskManager._file_access_lock: its holder (0: free)
    mutation,           \* the mutation of task_history.json each caller performs
    mutator_pc,         \* where each caller is in its mutation
    mutator_tasks,      \* the tasks map (or the task record) a caller has read
    context_class,      \* the class of the run context: "ExecutionContext" or "PipelineContext"
    pipeline_context,   \* the data of the PipelineContext of the run, key -> value
    scope,              \* the context handed to the plugin: its own fields and extras
    scope_attempt,      \* the attempt argument of the _run_with_retries call in progress
    scope_pc,           \* where that call is
    seen,               \* what the plugin of the attempt found under each key when invoked
    artifact_list,      \* the saved-artifacts list of the run context
    saving_pc,          \* where the _run_with_retries call of each step is
    recorded,           \* how many artifacts the plugin of each step has recorded
    saved_artifacts,    \* the local saved_artifacts list of each _run_with_retries call
    command_valid,      \* whether each ArtifactCommand has a task_id and a filename
    chain_lock,         \* ArtifactMiddleware._lock: the command that holds it (0: unlocked)
    chain_waiters,      \* the commands waiting for _lock, in the order of their acquire
    chain_pc,           \* where the execute call of each command is
    chain_pos,          \* how many handlers the execute call of each command has run
    handled,            \* the handler runs in the order they happened: <<command, handler>>
    collection,         \* the items of the collection of the loop, in order
    processed_count,    \* k: the plugins marked the first k items as processed
    processed_marks,    \* the item values v with a truthy "item_{v}_processed" key
    loop_iteration,     \* loop_context.get_loop_iteration_index(): Unset (None) or an index
    start_index,        \* start_index of _execute_collection_or_count_loop
    executed,           \* the indexes i whose iteration the loop has run, in order
    skip_pc,            \* where _execute_collection_or_count_loop is
    definition,         \* the PipelineDefinition handed to validate_pipeline
    validation,         \* how validate_pipeline ended: "none", "returned" or "ValueError"
    tool_registry,      \* MCPToolRegistry: _tools (registered, is_available) and _dependencies
    usage_count,        \* MCPTool.usage_count of every tool
    execution_updates,  \* MCPServer._execution_updates: the records created for each tool
    last_call,          \* the last tools/call request and the status of its response
    calls,              \* the tools/call requests handled so far
    tool_dependencies,  \* MCPToolRegistry._dependencies
    tool_names,         \* the argument of get_execution_order
    set_order,          \* the order in which this run iterates over sets of tool names
    execution_order,    \* what get_execution_order returned or raised
    now,                \* int(time.time()) of the MCP server's clock
    exec_tool,          \* tool execution -> the tool it was called for
    exec_raises,        \* tool execution -> whether its plugin raises
    exec_pc,            \* tool execution -> where _execute_tool is
    exec_id,            \* tool execution -> its execution_id
    update_lists,       \* MCPServer._execution_updates: execution id -> list of updates
    stream_pc,          \* progress stream -> where _stream_execution_progress is
    last_sent,          \* progress stream -> its last_sent
    delivered           \* progress stream -> the updates it has yielded, in order

resume_vars == <<resume_pc, resume_flag, restores, reference>>

loop_vars == <<loop_config, items, loop_counter, iterations, any_iteration_failed,
               condition_value>>

report_vars == <<progress, summaries>>

body_vars == <<body_semaphore, body_invocations>>

history_vars == <<history_file, file_lock, mutation, mutator_pc, mutator_tasks>>

scope_vars == <<context_class, pipeline_context, scope, scope_attempt, scope_pc, seen>>

\* the variables of the components around the executor
saving_vars == <<artifact_list, saving_pc, recorded, saved_artifacts>>

chain_vars == <<command_valid, chain_lock, chain_waiters, chain_pc, chain_pos, handled>>

skip_vars == <<collection, processed_count, processed_marks, loop_iteration, start_index, executed, skip_pc>>

validation_vars == <<definition, validation>>

mcp_vars == <<tool_registry, usage_count, execution_updates, last_call, calls>>

order_vars == <<tool_dependencies, tool_names, set_order, execution_order>>

stream_vars == <<now, exec_tool, exec_raises, exec_pc, exec_id, update_lists, stream_pc, last_sent, delivered>>

component_vars == <<history_vars, scope_vars, saving_vars, chain_vars, skip_vars, validation_vars, mcp_vars, order_vars, stream_vars>>

executor_vars == <<steps, max_workers, state, step_error, context, resume_data, tasks, attempt,
          invocations, delays, started, semaphore, pc, normal_phase_error, error_step,
          finally_errors, suspend_context, checkpoint, outcome, resume_pc, resume_flag,
          restores, reference, progress, summaries, loop_config, items, loop_counter,
          iterations, any_iteration_failed, condition_value, body_semaphore,
          body_invocations>>

history_frame == <<executor_vars, scope_vars, saving_vars, chain_vars, skip_vars, validation_vars, mcp_vars, order_vars, stream_vars>>

scope_frame == <<executor_vars, history_vars, saving_vars, chain_vars, skip_vars, validation_vars, mcp_vars, order_vars, stream_vars>>

saving_frame == <<executor_vars, history_vars, scope_vars, chain_vars, skip_vars, validation_vars, mcp_vars, order_vars, stream_vars>>

chain_frame == <<executor_vars, history_vars, scope_vars, saving_vars, skip_vars, validation_vars, mcp_vars, order_vars, stream_vars>>

skip_frame == <<executor_vars, history_vars, scope_vars, saving_vars, chain_vars, validation_vars, mcp_vars, order_vars, stream_vars>>

validation_frame == <<executor_vars, history_vars, scope_vars, saving_vars, chain_vars, skip_vars, mcp_vars, order_vars, stream_vars>>

mcp_frame == <<executor_vars, history_vars, scope_vars, saving_vars, chain_vars, skip_vars, validation_vars, order_vars, stream_vars>>

order_frame == <<executor_vars, history_vars, scope_vars, saving_vars, chain_vars, skip_vars, validation_vars, mcp_vars, stream_vars>>

stream_frame == <<executor_vars, history_vars, scope_vars, saving_vars, chain_vars, skip_vars, validation_vars, mcp_vars, order_vars>>

vars == <<executor_vars, component_vars>>

(***************************************************************************)
(* Pipelines.  A dependency is [step, when]: when = "none" for a bare      *)
(* step name, otherwise the when_output_equals value.                      *)
(***************************************************************************)
NoDep == "none"
WhenValues == {"ok", "bad"}

\* "is_loop_step = hasattr(step, "loop_config") and step.loop_config is not None"
IsLoopStep(s) == steps[s].plugin = "loop"

NormalSteps == {s \in Steps : ~steps[s].is_finally}
FinallySteps == {s \in Steps : steps[s].is_finally}

\* DAGValidator.validate_steps: the dependencies name declared steps, every step is
\* numbered after its dependencies (no cycle), critical steps depend on critical steps.
ValidateSteps(p) ==
    \A s \in Steps :
        /\ \A d \in p[s].depends_on : d.step \in Steps /\ d.step < s
        /\ \A d1, d2 \in p[s].depends_on : d1.step = d2.step => d1 = d2
        /\ p[s].fail_on_error => \A d \in p[s].depends_on : p[d.step].fail_on_error

\* The pipelines the model runs: every valid definition over Steps within the bounds.
\* Finally steps are declared last, and no normal step depends on a finally step.
DepChoices(s) ==
    {D \in SUBSET [step : {t \in Steps : t < s}, when : {NoDep} \cup WhenValues] :
        \A d1, d2 \in D : d1.step = d2.step => d1 = d2}

DependencyChoices ==
    {g \in [Steps -> UNION {DepChoices(s) : s \in Steps}] :
        /\ \A s \in Steps : g[s] \in DepChoices(s)
        /\ Cardinality({<<s, d>> \in Steps \X Steps :
                \E e \in g[s] : e.step = d /\ e.when # NoDep}) <= MaxConditional}

PluginChoices(kinds) ==
    {k \in [Steps -> kinds] : Cardinality({s \in Steps : k[s] # "ok"}) <= MaxFaulty}

FinallyChoices ==
    {z \in [Steps -> BOOLEAN] :
        /\ \E s \in Steps : ~z[s]
        /\ \A s, t \in Steps : (z[s] /\ s < t) => z[t]}

MakePipeline(g, k, f, z) ==
    [s \in Steps |-> [depends_on |-> g[s], fail_on_error |-> f[s],
                      is_finally |-> z[s], plugin |-> k[s]]]

(***************************************************************************)
(* DAGState (src/core/dag_state.py).                                       *)
(***************************************************************************)
\* is_step_ready: PENDING, every dependency COMPLETED, and the recorded output of
\* every conditional dependency equal to its when_output_equals value.
IsStepReady(st, ctx, s) ==
    /\ st[s] = PENDING
    /\ \A d \in steps[s].depends_on :
          /\ st[d.step] = COMPLETED
          /\ d.when # NoDep => ctx[d.step] = d.when

\* COMPLETED, FAILED and SKIPPED are terminal; SUSPENDED is terminal for the run.
Terminal == {COMPLETED, FAILED, SKIPPED, SUSPENDED}

\* is_step_ready_for_finally: every non-finally step has reached a terminal state,
\* and the dependencies among finally steps are honored.
IsStepReadyForFinally(st, s) ==
    /\ st[s] = PENDING
    /\ \A t \in NormalSteps : st[t] \in Terminal
    /\ \A d \in steps[s].depends_on : steps[d.step].is_finally => st[d.step] = COMPLETED

\* get_remaining_steps: the steps that have not been started
GetRemainingSteps(st) == {s \in Steps : st[s] = PENDING}

MarkStepRunning(st, s) == [st EXCEPT ![s] = RUNNING]
MarkStepCompleted(st, s) == [st EXCEPT ![s] = COMPLETED]
MarkStepFailed(st, s) == [st EXCEPT ![s] = FAILED]
MarkStepSkipped(st, s) == [st EXCEPT ![s] = SKIPPED]
MarkStepSuspended(st, s) == [st EXCEPT ![s] = SUSPENDED]

running_steps == {s \in Steps : state[s] = RUNNING}
completed_steps == {s \in Steps : state[s] = COMPLETED}
failed_steps == {s \in Steps : state[s] = FAILED}
suspended_steps == {s \in Steps : state[s] = SUSPENDED}
skipped_steps == {s \in Steps : state[s] = SKIPPED}

(***************************************************************************)
(* Helpers.                                                                *)
(***************************************************************************)
Min(S) == CHOOSE x \in S : \A y \in S : x <= y

RECURSIVE InOrder(_)
\* the steps of S in declaration order
InOrder(S) == IF S = {} THEN <<>> ELSE <<Min(S)>> \o InOrder(S \ {Min(S)})

\* asyncio task states: the task is in the tasks dict unless "none"
Done == {"returned", "raised_suspended", "raised_error", "raised_dag",
         "raised_pipeline_suspended"}
InFlight == {s \in Steps : tasks[s] # "none"}
DoneTasks == {s \in Steps : tasks[s] \in Done}

\* no checkpoint was written for the task
NoCheckpoint == [dag_state |-> <<>>, errors |-> <<>>, context |-> <<>>,
                 resume_data |-> <<>>, suspended_at_steps |-> {}]

\* the two resume_from_checkpoint calls on the task
Resumers == {1, 2}

(***************************************************************************)
(* The initial state: DAGExecutor.__init__ and the start of executeDAG     *)
(* (validation passed, a new DAGState with every step PENDING).            *)
(***************************************************************************)
InitRun ==
    /\ state = [s \in Steps |-> PENDING]
    /\ step_error = [s \in Steps |-> FALSE]
    /\ context = [s \in Steps |-> "absent"]
    /\ tasks = [s \in Steps |-> "none"]
    /\ attempt = [s \in Steps |-> 0]
    /\ invocations = [s \in Steps |-> 0]
    /\ delays = [s \in Steps |-> <<>>]
    /\ started = [s \in Steps |-> 0]
    /\ semaphore = max_workers
    /\ pc = "normal"
    /\ normal_phase_error = "none"
    /\ error_step = 0
    /\ finally_errors = [s \in Steps |-> 0]
    /\ suspend_context = {}
    /\ checkpoint = NoCheckpoint
    /\ outcome = "none"

\* the callback got no event yet
NoProgress ==
    /\ progress = [s \in Steps |-> {}]
    /\ summaries = 0

\* a field of the LoopConfig that is not set (None)
Unset == 0 - 1

\* the LoopConfig of a pipeline without loop step, and the loop variables before a loop
NoLoopConfig == [collection |-> Unset, count |-> Unset, condition |-> "none",
                 max_iterations |-> 0, fail_fast |-> FALSE, body |-> "plain"]

\* "self._semaphore = asyncio.Semaphore(self.max_workers)" of a body executor, which
\* gets max_workers=self.parent_executor_max_workers
BodyIdle ==
    /\ body_semaphore = max_workers
    /\ body_invocations = 0

(***************************************************************************)
(* TaskManager: task_history.json.  The file holds a map from task ids to  *)
(* task records.  Task 0 exists; create_task of caller p makes task p (a   *)
(* fresh uuid).  The pipeline of task 0 has one step, step 1, which is     *)
(* critical.  An artifacts dict is the set of its entries [name, step]:    *)
(* step is the "step" field the middleware writes (0: None), Unset for an  *)
(* entry copied from a step's artifacts.                                   *)
(***************************************************************************)
Mutators == {1, 2}
HistoryTasks == {0} \cup Mutators

NoStepProgress == [status |-> "none", artifacts |-> {}]
NoTaskRecord == [exists |-> FALSE, status |-> "none", step_progress |-> NoStepProgress,
                 artifacts |-> {}]

\* the record create_task builds
CreatedTaskRecord == [exists |-> TRUE, status |-> "created",
                      step_progress |-> NoStepProgress, artifacts |-> {}]

NoTasks == [t \in HistoryTasks |-> NoTaskRecord]
InitialHistory == [NoTasks EXCEPT ![0] = CreatedTaskRecord]

\* the artifact a step reports with its progress
StepArtifact == 0

NoMutation == [kind |-> "none", status |-> "none", artifacts |-> {}, pipeline_def |-> FALSE]

\* the mutations of the history of task 0 (create_task adds a task); pipeline_def:
\* the registry of the caller's container holds the pipeline of the task
Mutations ==
    [kind : {"create_task", "update_task_history"}, status : {"none"},
     artifacts : {{}}, pipeline_def : {FALSE}]
    \cup [kind : {"update_task_status"}, status : {"running", "completed"},
          artifacts : {{}}, pipeline_def : {FALSE}]
    \cup [kind : {"update_step_progress"}, status : {"running", "completed", "failed"},
          artifacts : {{}, {StepArtifact}}, pipeline_def : BOOLEAN]

\* update_task_status between its read and its write
UpdateTaskStatus(m, t, mu) ==
    IF ~m[t].exists THEN m ELSE [m EXCEPT ![t].status = mu.status]

\* the overall status update_step_progress derives from the step_progress of the
\* one-step pipeline
OverallStatus(status) ==
    CASE status = "failed" -> "failed"
      [] status = "suspended" -> "suspended"
      [] status = "completed" -> "completed"
      [] status = "running" -> "running"
      [] OTHER -> "pending"

\* update_step_progress between its read and its write
UpdateStepProgress(m, t, mu) ==
    IF ~m[t].exists THEN m
    ELSE LET step_data == [status |-> mu.status,
                           artifacts |-> IF mu.artifacts # {} THEN mu.artifacts
                                         ELSE m[t].step_progress.artifacts]
             all_artifacts == {[name |-> n, step |-> Unset] : n \in step_data.artifacts}
         IN IF mu.pipeline_def
            THEN [m EXCEPT ![t].step_progress = step_data,
                           ![t].status = OverallStatus(step_data.status),
                           ![t].artifacts = all_artifacts]
            ELSE [m EXCEPT ![t].step_progress = step_data]

\* the task record the artifact-history middleware builds from the tasks it read:
\* task_record["artifacts"][command.filename] = {..., "step": current_step}
ArtifactRecord(m, t, name) ==
    LET current_step == IF m[t].step_progress.status = "running" THEN 1 ELSE 0
    IN [m[t] EXCEPT !.artifacts =
            {a \in @ : a.name # name} \cup {[name |-> name, step |-> current_step]}]

\* _append_history_record between its read and its write
AppendHistoryRecord(m, t, record) == [m EXCEPT ![t] = record]

\* nobody mutates the history
HistoryIdle ==
    /\ history_file = <<>>
    /\ file_lock = 0
    /\ mutation = <<>>
    /\ mutator_pc = <<>>
    /\ mutator_tasks = <<>>

(***************************************************************************)
(* The context a plugin gets.  An ExecutionContext wraps the               *)
(* PipelineContext of the run; spawn_child makes a new ExecutionContext    *)
(* with the fields and a copy of the extras of its parent and the same     *)
(* _pipeline_context.  A value is Original (what the run context held      *)
(* when the step started) or the number of the attempt that wrote it.      *)
(***************************************************************************)
Original == 0

\* "step_name": a dataclass field of ExecutionContext; "resolved": a key of its
\* extras; "data": any other key
FieldKeys == {"step_name"}
ExtrasKeys == {"resolved"}
ContextKeys == FieldKeys \cup ExtrasKeys \cup {"data"}

\* ExecutionContext.spawn_child: the fields and extras of the new context
SpawnChild == [k \in FieldKeys \cup ExtrasKeys |-> Original]

\* ExecutionContext.__getitem__: the fields, then the extras, then the pipeline
\* context; a PipelineContext is read directly
GetItem(class, child, data, k) ==
    IF class = "ExecutionContext" /\ k \in FieldKeys \cup ExtrasKeys
    THEN child[k] ELSE data[k]

\* ExecutionContext.__setitem__: a field is set on the object itself, every other
\* key is stored in the pipeline context; a PipelineContext is written directly
SetItemChild(class, child, k, v) ==
    IF class = "ExecutionContext" /\ k \in FieldKeys
    THEN [child EXCEPT ![k] = v] ELSE child

SetItemData(class, data, k, v) ==
    IF class = "ExecutionContext" /\ k \in FieldKeys
    THEN data ELSE [data EXCEPT ![k] = v]

\* no step is running
ScopeIdle ==
    /\ context_class = "ExecutionContext"
    /\ pipeline_context = <<>>
    /\ scope = <<>>
    /\ scope_attempt = 0
    /\ scope_pc = "done"
    /\ seen = <<>>

(***************************************************************************)
(* The saved artifacts of a step.  The run context holds one artifact      *)
(* list; the steps of a run get the same context.  An artifact is <<s, n>>:*)
(* the n-th artifact the plugin of step s recorded.                        *)
(***************************************************************************)
SavingSteps == {1, 2}

\* "saved_artifacts.extend(context_for_plugin_run_final.get_saved_artifacts())"
ExtendSaved(saved, list) == saved \o list

\* no step records artifacts
SavingIdle ==
    /\ artifact_list = <<>>
    /\ saving_pc = <<>>
    /\ recorded = <<>>
    /\ saved_artifacts = <<>>

(***************************************************************************)
(* ArtifactMiddleware.  The handlers of the chain, in the order of their   *)
(* "use" calls: ArtifactCommandHandler.__init__ registers the four default *)
(* handlers, ArtifactManager.__init__ calls setup_default_handlers again,  *)
(* and the TaskManager adds update_task_history.                           *)
(***************************************************************************)
Commands == {1, 2, 3}

DefaultHandlers == <<"validate_command", "prepare_directories", "save_to_disk",
                     "record_command">>

Handlers == DefaultHandlers \o DefaultHandlers \o <<"update_task_history">>

\* "if not command.task_id or not command.filename: raise ValueError"
HandlerRaises(h, valid) == h = "validate_command" /\ ~valid

\* no command is submitted
ChainIdle ==
    /\ command_valid = <<>>
    /\ chain_lock = 0
    /\ chain_waiters = <<>>
    /\ chain_pc = <<>>
    /\ chain_pos = <<>>
    /\ handled = <<>>

(***************************************************************************)
(* The resume of a collection loop: which iterations are skipped.          *)
(***************************************************************************)
ItemValues == {"a", "b", "c"}

\* the sequences of at most n item values
Collections(n) == UNION {[1..m -> ItemValues] : m \in 0..n}

\* "if loop_context.get(f"item_{items[idx]}_processed", False):
\*      processed_items.append(idx)" for idx in range(len(items)); indexes from 0
ProcessedItems(its, marks) == {idx \in 0..(Len(its) - 1) : its[idx + 1] \in marks}

\* "start_index = 0; if loop_iteration is not None: ... if processed_items:
\*  start_index = len(processed_items)"
StartIndex(its, marks, iteration) ==
    IF iteration # Unset /\ ProcessedItems(its, marks) # {}
    THEN Cardinality(ProcessedItems(its, marks))
    ELSE 0

\* no loop is resumed
SkipIdle ==
    /\ collection = <<>>
    /\ processed_count = 0
    /\ processed_marks = {}
    /\ loop_iteration = Unset
    /\ start_index = 0
    /\ executed = <<>>
    /\ skip_pc = "returned"

(***************************************************************************)
(* Orchestrator.validate_pipeline.  A definition has the steps of Steps,   *)
(* named by their number unless names_unique is FALSE; depends_on holds    *)
(* step names, 0 for a name no step has.                                   *)
(***************************************************************************)
UnknownStep == 0

Definitions ==
    [steps : [Steps -> [depends_on : SUBSET (Steps \cup {UnknownStep}),
                        fail_on_error : BOOLEAN, has_plugin : BOOLEAN]],
     names_unique : BOOLEAN, params_unique : BOOLEAN]

\* the checks before the cycle detection, in the order of the code: duplicate step
\* names, duplicate parameter names, unknown plugins, unknown dependencies and
\* critical steps that depend on non-critical steps
OtherChecksPass(def) ==
    /\ def.names_unique
    /\ def.params_unique
    /\ \A s \in Steps : def.steps[s].has_plugin
    /\ \A s \in Steps : \A d \in def.steps[s].depends_on :
          /\ d \in Steps
          /\ def.steps[s].fail_on_error => def.steps[d].fail_on_error

RECURSIVE Dfs_VisitedFirst(_, _, _)
RECURSIVE DfsDeps_VisitedFirst(_, _, _)
Dfs_VisitedFirst(def, step_name, st) ==
    IF st.raised THEN st
    ELSE IF step_name \in st.visited THEN st
    ELSE IF step_name \in st.rec_stack THEN [st EXCEPT !.raised = TRUE]
    ELSE LET entered == [st EXCEPT !.visited = @ \cup {step_name},
                                   !.rec_stack = @ \cup {step_name}]
             after == DfsDeps_VisitedFirst(def, InOrder(def.steps[step_name].depends_on),
                                           entered)
         IN IF after.raised THEN after
            ELSE [after EXCEPT !.rec_stack = @ \ {step_name}]

DfsDeps_VisitedFirst(def, deps, st) ==
    IF deps = <<>> THEN st
    ELSE DfsDeps_VisitedFirst(def, Tail(deps), Dfs_VisitedFirst(def, Head(deps), st))

RECURSIVE Dfs(_, _, _)
RECURSIVE DfsDeps(_, _, _)
\* dfs(step_name): "if step_name in rec_stack: raise ValueError; if step_name in
\* visited: return; visited.add; rec_stack.add; for dep in step.depends_on: dfs(dep);
\* rec_stack.remove".  st is [visited, rec_stack, raised].
Dfs(def, step_name, st) ==
    IF st.raised THEN st
    ELSE IF step_name \in st.rec_stack THEN [st EXCEPT !.raised = TRUE]
    ELSE IF step_name \in st.visited THEN st
    ELSE LET entered == [st EXCEPT !.visited = @ \cup {step_name},
                                   !.rec_stack = @ \cup {step_name}]
             after == DfsDeps(def, InOrder(def.steps[step_name].depends_on), entered)
         IN IF after.raised THEN after
            ELSE [after EXCEPT !.rec_stack = @ \ {step_name}]

\* "for dep in step.depends_on: dfs(dep)"
DfsDeps(def, deps, st) ==
    IF deps = <<>> THEN st
    ELSE DfsDeps(def, Tail(deps), Dfs(def, Head(deps), st))

RECURSIVE DetectCycles(_, _, _)
\* "for step in definition.steps: if step.name not in visited: dfs(step.name)"
DetectCycles(def, q, st) ==
    IF q = <<>> \/ st.raised THEN st
    ELSE DetectCycles(def, Tail(q),
                      IF Head(q) \in st.visited THEN st ELSE Dfs(def, Head(q), st))

\* validate_pipeline: "returned" or the error raised
ValidatePipeline(def) ==
    IF ~OtherChecksPass(def) THEN "ValueError"
    ELSE IF DetectCycles(def, InOrder(Steps),
                         [visited |-> {}, rec_stack |-> {}, raised |-> FALSE]).raised
         THEN "ValueError"
         ELSE "returned"

\* nothing is validated
ValidationIdle ==
    /\ definition = <<>>
    /\ validation = "none"

(***************************************************************************)
(* The MCP server and its tool registry.  A tool name is registered or     *)
(* not; dependencies are tool names.  A response is its HTTP status, 200   *)
(* for a CallToolResponse.                                                 *)
(***************************************************************************)
ToolNames == {1, 2, 3}

Registries ==
    [ToolNames -> [registered : BOOLEAN, is_available : BOOLEAN,
                   dependencies : SUBSET ToolNames]]

\* MCPToolRegistry.is_tool_available: "tool is not None and tool.is_available"
IsToolAvailable(reg, t) == reg[t].registered /\ reg[t].is_available

\* MCPToolRegistry.validate_tool_dependencies: the dependencies that are not available
ValidateToolDependencies_None(reg, t) == {}

ValidateToolDependencies(reg, t) ==
    {d \in reg[t].dependencies : ~IsToolAvailable(reg, d)}

\* the checks of _handle_call_tool before the execution: the status of the
\* HTTPException raised, 0 if none is raised
Rejection(reg, t) ==
    IF ~reg[t].registered THEN 404
    ELSE IF ~reg[t].is_available THEN 503
    ELSE IF ValidateToolDependencies(reg, t) # {} THEN 400
    ELSE 0

NoCall == [tool |-> 0, status |-> 0]

\* the server has handled no request
McpIdle ==
    /\ tool_registry = <<>>
    /\ usage_count = <<>>
    /\ execution_updates = <<>>
    /\ last_call = <<>>
    /\ calls = 0

(***************************************************************************)
(* MCPToolRegistry.get_execution_order: a depth-first topological sort.    *)
(* The state of the sort is visited, temp_visited and result; raised says  *)
(* that ValueError was raised, which ends the sort.                        *)
(***************************************************************************)
Dependencies == [ToolNames -> SUBSET ToolNames]

NameLists == UNION {[1..n -> ToolNames] : n \in 0..MaxNames}

SetOrders ==
    {o \in [1..Cardinality(ToolNames) -> ToolNames] :
        \A i, j \in DOMAIN o : i # j => o[i] # o[j]}

\* "dep in tool_names", for the list tool_names
InNames_Always(dep, names) == TRUE

InNames(dep, names) == \E i \in DOMAIN names : names[i] = dep

\* the dependencies of t in the order of the iteration over the set
DepsInOrder(deps, ord, t) == SelectSeq(ord, LAMBDA d : d \in deps[t])

SortStart == [visited |-> {}, temp_visited |-> {}, result |-> <<>>, raised |-> FALSE]

RECURSIVE Visit(_, _, _, _, _)
RECURSIVE VisitDeps(_, _, _, _, _)

\* the for loop of visit over the dependencies ds of a tool
VisitDeps(st, ds, deps, names, ord) ==
    IF ds = <<>> \/ st.raised THEN st
    ELSE VisitDeps(IF InNames(Head(ds), names)
                   THEN Visit(st, Head(ds), deps, names, ord)
                   ELSE st,
                   Tail(ds), deps, names, ord)

\* visit(tool_name)
Visit(st, t, deps, names, ord) ==
    IF st.raised THEN st
    ELSE IF t \in st.temp_visited THEN [st EXCEPT !.raised = TRUE]
    ELSE IF t \in st.visited THEN st
    ELSE LET after == VisitDeps([st EXCEPT !.temp_visited = @ \cup {t}],
                                DepsInOrder(deps, ord, t), deps, names, ord)
         IN IF after.raised THEN after
            ELSE [after EXCEPT !.temp_visited = @ \ {t},
                               !.visited = @ \cup {t},
                               !.result = Append(@, t)]

RECURSIVE VisitAll(_, _, _, _, _)
\* "for tool_name in tool_names: visit(tool_name)", from position i
VisitAll(st, i, deps, names, ord) ==
    IF i > Len(names) \/ st.raised THEN st
    ELSE VisitAll(Visit(st, names[i], deps, names, ord), i + 1, deps, names, ord)

GetExecutionOrder(deps, names, ord) ==
    LET st == VisitAll(SortStart, 1, deps, names, ord)
    IN [done |-> TRUE, raised |-> st.raised,
        result |-> IF st.raised THEN <<>> ELSE st.result]

NoOrder == [done |-> FALSE, raised |-> FALSE, result |-> <<>>]

\* get_execution_order has not been called
OrderIdle ==
    /\ tool_dependencies = <<>>
    /\ tool_names = <<>>
    /\ set_order = <<>>
    /\ execution_order = <<>>

(***************************************************************************)
(* The tool executions of the MCP server and the progress streams.  An     *)
(* execution creates its list in _execution_updates and appends updates;   *)
(* the stream of an execution id polls that list.  Stream k is the stream  *)
(* a client opens for the id of execution k.                               *)
(***************************************************************************)
Executions == {1, 2}

ExecTools == {"atomic_tool", "pipeline_tool"}

\* tool.spec.tool_type.value
ToolType(t) == IF t = "atomic_tool" THEN "atomic" ELSE "pipeline"

\* execution_id = f"{tool_name}_{int(time.time())}"
ExecutionId(t, time) == <<t, time>>

\* an ExecutionUpdate; by is the execution that appended it
Update(c, status) == [by |-> c, status |-> status]

\* "self._execution_updates[execution_id] = []", then the first append
NewList(lists, id, first) == (id :> <<first>>) @@ lists

\* "self._execution_updates[execution_id].append(update)"
AppendUpdate(lists, id, update) == [lists EXCEPT ![id] = Append(@, update)]

\* "updates and updates[-1].status in [ExecutionStatus.COMPLETED, ExecutionStatus.FAILED]"
ExecutionComplete(updates) ==
    updates # <<>> /\ updates[Len(updates)].status \in {COMPLETED, FAILED}

\* no tool is executed and no stream is open
StreamIdle ==
    /\ now = 0
    /\ exec_tool = <<>>
    /\ exec_raises = <<>>
    /\ exec_pc = <<>>
    /\ exec_id = <<>>
    /\ update_lists = <<>>
    /\ stream_pc = <<>>
    /\ last_sent = <<>>
    /\ delivered = <<>>

\* no component is in use: its collections are empty (<<>> is the function of
\* the empty domain)
ComponentsIdle == HistoryIdle /\ ScopeIdle /\ SavingIdle /\ ChainIdle /\ SkipIdle /\ ValidationIdle /\ McpIdle /\ OrderIdle /\ StreamIdle

LoopIdle ==
    /\ items = 0
    /\ loop_counter = 0
    /\ iterations = <<>>
    /\ any_iteration_failed = FALSE

NoLoop ==
    /\ loop_config = NoLoopConfig
    /\ condition_value = FALSE
    /\ LoopIdle

\* "self._progress_callback(StepProgress(step_name, status, ...))" in _report_progress
ReportProgress(pr, s, status) == [pr EXCEPT ![s] = @ \cup {status}]

\* no resume was called, no resume flag is set, and there is no run to compare with
NoResume ==
    /\ resume_pc = [r \in Resumers |-> "idle"]
    /\ resume_flag = "clear"
    /\ restores = [r \in Resumers |-> 0]
    /\ reference = [pending |-> FALSE, completed |-> {}]

\* the plugins of the pipelines of Spec: success, a fatal error, a suspension, or a
\* plugin that cannot be built
SpecKinds == {"ok", "PluginError", "PluginSuspendedException", "init_error"}

Init ==
    /\ \E g \in DependencyChoices, k \in PluginChoices(SpecKinds),
          f \in [Steps -> BOOLEAN], z \in FinallyChoices :
            /\ steps = MakePipeline(g, k, f, z)
            /\ ValidateSteps(steps)
            /\ \A s \in Steps : ~z[s] => \A d \in g[s] : ~z[d.step]
    /\ max_workers \in 1..MaxWorkers
    /\ InitRun
    /\ resume_data = [s \in Steps |-> "absent"]
    /\ NoResume
    /\ NoProgress
    /\ NoLoop
    /\ BodyIdle
    /\ ComponentsIdle

(***************************************************************************)
(* _create_step_task: build the plugin, create the asyncio task, and mark  *)
(* the step RUNNING in the DAGState.  acc carries the fields a scheduling  *)
(* pass changes; raised is the step whose DAGExecutionError left the pass. *)
(***************************************************************************)
CreateStepTask(acc, s) ==
    IF steps[s].plugin = "init_error"
    THEN [acc EXCEPT !.state = MarkStepFailed(acc.state, s),
                     !.progress = ReportProgress(acc.progress, s, FAILED),
                     !.step_error[s] = TRUE,
                     !.started[s] = @ + 1,
                     !.raised = IF steps[s].fail_on_error THEN s ELSE 0]
    ELSE [acc EXCEPT !.tasks[s] = "created",
                     !.started[s] = @ + 1,
                     !.state = MarkStepRunning(acc.state, s)]

SchedulingPass ==
    [state |-> state, step_error |-> step_error, tasks |-> tasks, started |-> started,
     finally_errors |-> finally_errors, progress |-> progress, raised |-> 0]

RECURSIVE StartNormalTasks(_, _)
\* "for step in ready_steps: task = self._create_step_task(step)": the first
\* DAGExecutionError leaves the loop and the normal phase.
StartNormalTasks(q, acc) ==
    IF q = <<>> \/ acc.raised # 0 THEN acc
    ELSE StartNormalTasks(Tail(q), CreateStepTask(acc, Head(q)))

RECURSIVE StartFinallyTasks(_, _)
\* the finally phase catches the error of each _create_step_task and goes on
StartFinallyTasks(q, acc) ==
    IF q = <<>> THEN acc
    ELSE LET a == CreateStepTask(acc, Head(q))
         IN StartFinallyTasks(Tail(q),
                IF a.raised # 0
                THEN [a EXCEPT !.finally_errors[a.raised] = @ + 1, !.raised = 0]
                ELSE a)

(***************************************************************************)
(* _process_completed_task for one done task.                              *)
(***************************************************************************)
\* whether processing the task of s raises (a critical failure)
ProcessRaises(s) ==
    \/ tasks[s] = "raised_dag"
    \/ tasks[s] = "raised_pipeline_suspended"
    \/ tasks[s] = "raised_error" /\ steps[s].fail_on_error

\* a handler that marks COMPLETED every step whose task returned
ProcessedStatus_AlwaysCompleted(s) ==
    CASE tasks[s] = "returned" -> COMPLETED
      [] tasks[s] \in {"raised_suspended", "raised_pipeline_suspended"} -> state[s]
      [] OTHER -> FAILED

\* the DAGState status of s after its task was processed
ProcessedStatus(s) ==
    CASE tasks[s] = "returned" -> IF state[s] # FAILED THEN COMPLETED ELSE state[s]
      [] tasks[s] \in {"raised_suspended", "raised_pipeline_suspended"} -> state[s]
      [] OTHER -> FAILED

\* whether processing the task of s reports progress: "completed" after
\* mark_step_completed, "failed" after mark_step_failed in the except clauses
ProcessReports(s) ==
    \/ tasks[s] = "returned" /\ state[s] # FAILED
    \/ tasks[s] \in {"raised_error", "raised_dag"}

ProcessCompletedTasks(P) ==
    /\ state' = [s \in Steps |-> IF s \in P THEN ProcessedStatus(s) ELSE state[s]]
    /\ step_error' = [s \in Steps |->
          IF s \in P /\ tasks[s] \in {"raised_error", "raised_dag"} THEN TRUE
          ELSE step_error[s]]
    /\ tasks' = [s \in Steps |-> IF s \in P THEN "none" ELSE tasks[s]]
    /\ progress' = [s \in Steps |->
          IF s \in P /\ ProcessReports(s)
          THEN progress[s] \cup {ProcessedStatus(s)} ELSE progress[s]]

(***************************************************************************)
(* _execute_normal_phase.                                                  *)
(***************************************************************************)
\* a scheduler that starts every step it has not started yet
ReadySteps_AnyPending == {s \in NormalSteps : state[s] = PENDING}

\* "for step in normal_steps: if self._state.is_step_ready(...): ready_steps.append"
ReadySteps == {s \in NormalSteps : IsStepReady(state, context, s)}

\* "for step in finally_steps: if self._state.is_step_ready_for_finally(...)"
ReadyFinallySteps == {s \in FinallySteps : IsStepReadyForFinally(state, s)}

\* One pass of the while loop up to its await: the ready steps, the end of the
\* phase when nothing is ready and nothing is in flight, the new tasks.
NormalPhase ==
    /\ pc = "normal"
    /\ LET ready == ReadySteps
           remaining == GetRemainingSteps(state) \cap NormalSteps
           skip == {r \in remaining : \E d \in steps[r].depends_on :
                       \/ d.when # NoDep /\ state[d.step] = COMPLETED
                       \/ state[d.step] = FAILED}
           acc == StartNormalTasks(InOrder(ready), SchedulingPass)
       IN IF ready = {} /\ InFlight = {}
          THEN /\ pc' = "finally"
               /\ state' = IF remaining # {} /\ skip # {}
                           THEN [s \in Steps |-> IF s \in skip THEN SKIPPED ELSE state[s]]
                           ELSE state
               /\ normal_phase_error' = IF remaining # {} /\ skip = {}
                                        THEN "ValueError" ELSE normal_phase_error
               /\ UNCHANGED <<step_error, tasks, started, error_step, progress>>
          ELSE /\ state' = acc.state
               /\ progress' = acc.progress
               /\ step_error' = acc.step_error
               /\ tasks' = acc.tasks
               /\ started' = acc.started
               /\ IF acc.raised # 0
                  THEN /\ normal_phase_error' = "DAGExecutionError"
                       /\ error_step' = acc.raised
                       /\ pc' = "finally"
                  ELSE /\ UNCHANGED <<normal_phase_error, error_step>>
                       /\ pc' = IF \A s \in Steps : acc.tasks[s] = "none"
                                THEN "normal" ELSE "normal_wait"
    /\ UNCHANGED <<steps, max_workers, context, resume_data, attempt, invocations, delays,
                   semaphore, finally_errors, suspend_context, checkpoint, outcome, resume_vars, loop_vars, body_vars, component_vars, summaries>>

\* asyncio.wait(FIRST_COMPLETED) returned: the done tasks are processed in the order
\* of a set; the first critical failure leaves the loop, the rest is not processed.
NormalWake ==
    /\ pc = "normal_wait"
    /\ DoneTasks # {}
    /\ LET raising == {s \in DoneTasks : ProcessRaises(s)}
       IN IF raising = {}
          THEN /\ ProcessCompletedTasks(DoneTasks)
               /\ pc' = "normal"
               /\ UNCHANGED <<normal_phase_error, error_step>>
          ELSE \E r \in raising, P \in SUBSET (DoneTasks \ raising) :
               /\ ProcessCompletedTasks(P \cup {r})
               /\ normal_phase_error' = IF tasks[r] = "raised_pipeline_suspended"
                                        THEN "PipelineSuspendedException"
                                        ELSE "DAGExecutionError"
               /\ error_step' = r
               /\ pc' = "finally"
    /\ UNCHANGED <<steps, max_workers, context, resume_data, attempt, invocations, delays,
                   started, semaphore, finally_errors, suspend_context, checkpoint, outcome, resume_vars, loop_vars, body_vars, component_vars, summaries>>

(***************************************************************************)
(* _execute_finally_phase.                                                 *)
(***************************************************************************)
\* a finally phase that returns only the errors it caught in its loop
CollectFailedFinallySteps_None(errs) == errs

\* "for step in finally_steps: if step.name in self._state.failed_steps": after the
\* loop the error of every FAILED finally step is appended to finally_errors
CollectFailedFinallySteps(errs) ==
    [s \in Steps |-> IF s \in FinallySteps /\ state[s] = FAILED
                     THEN errs[s] + 1 ELSE errs[s]]

FinallyPhase ==
    /\ pc = "finally"
    /\ LET ready == ReadyFinallySteps
           acc == StartFinallyTasks(InOrder(ready), SchedulingPass)
       IN IF FinallySteps = {}
          THEN /\ pc' = "finish"
               /\ UNCHANGED <<state, step_error, tasks, started, finally_errors, progress>>
          ELSE IF ready = {} /\ InFlight = {}
          THEN \* the loop ends (complete or stalled); the failed finally steps are collected
               /\ finally_errors' = CollectFailedFinallySteps(finally_errors)
               /\ pc' = "finish"
               /\ UNCHANGED <<state, step_error, tasks, started, progress>>
          ELSE /\ state' = acc.state
               /\ progress' = acc.progress
               /\ step_error' = acc.step_error
               /\ tasks' = acc.tasks
               /\ started' = acc.started
               /\ finally_errors' = acc.finally_errors
               /\ pc' = IF \A s \in Steps : acc.tasks[s] = "none"
                        THEN "finally" ELSE "finally_wait"
    /\ UNCHANGED <<steps, max_workers, context, resume_data, attempt, invocations, delays,
                   semaphore, normal_phase_error, error_step, suspend_context, checkpoint,
                   outcome, resume_vars, loop_vars, body_vars, component_vars, summaries>>

\* every done task is processed; an error is appended to finally_errors
FinallyWake ==
    /\ pc = "finally_wait"
    /\ DoneTasks # {}
    /\ ProcessCompletedTasks(DoneTasks)
    /\ finally_errors' = [s \in Steps |->
          IF s \in DoneTasks /\ ProcessRaises(s)
          THEN finally_errors[s] + 1 ELSE finally_errors[s]]
    /\ pc' = "finally"
    /\ UNCHANGED <<steps, max_workers, context, resume_data, attempt, invocations, delays,
                   started, semaphore, normal_phase_error, error_step, suspend_context,
                   checkpoint, outcome, resume_vars, loop_vars, body_vars, component_vars, summaries>>

(***************************************************************************)
(* _run_with_retries, one asyncio task per started step.  A task runs only *)
(* while the supervising coroutine is suspended in asyncio.wait.           *)
(***************************************************************************)
Supervising == pc \in {"normal_wait", "finally_wait"}

\* what the plugin call of s does: a suspending plugin returns once the context
\* holds resume data for its step
PluginOutcome(s) ==
    IF steps[s].plugin = "PluginSuspendedException" /\ resume_data[s] # "absent"
    THEN "ok" ELSE steps[s].plugin

\* a handler that retries every plugin error
Retryable_AnyPluginError(o) ==
    o \in {"RetryablePluginError", "PluginError", "PluginInputError"}

\* "except RetryablePluginError": the only error that is retried; the clauses of
\* PluginInputError and PluginError mark the step FAILED at once
Retryable(o) == o = "RetryablePluginError"

\* a retry policy that allows one attempt more
RetryAgain_OneMore(a) == a < max_retries

\* "attempt < max_retries - 1": another attempt follows
RetryAgain(a) == a < max_retries - 1

\* "await asyncio.sleep(RETRY_DELAY * (attempt + 1))"
RetryDelay(a) == RETRY_DELAY * (a + 1)

\* From the entry of _run_with_retries (first call, or the recursive call after the
\* back-off sleep, or the wake-up of a waiter) to the plugin call under the semaphore:
\* "async with self._semaphore" either takes a permit and the plugin is invoked, or
\* the task waits for one.
RunWithRetries(s) ==
    /\ Supervising
    /\ ~IsLoopStep(s)
    /\ \/ tasks[s] \in {"created", "sleeping"}
       \/ tasks[s] = "waiting" /\ semaphore > 0
    /\ IF semaphore > 0
       THEN /\ semaphore' = semaphore - 1
            /\ tasks' = [tasks EXCEPT ![s] = "invoking"]
            /\ invocations' = [invocations EXCEPT ![s] = @ + 1]
            /\ progress' = ReportProgress(progress, s, RUNNING)
       ELSE /\ tasks' = [tasks EXCEPT ![s] = "waiting"]
            /\ UNCHANGED <<semaphore, invocations, progress>>
    /\ UNCHANGED <<steps, max_workers, state, step_error, context, resume_data, attempt,
                   delays, started, pc, normal_phase_error, error_step, finally_errors,
                   suspend_context, checkpoint, outcome, resume_vars, loop_vars, body_vars, component_vars, summaries>>

\* the step is marked FAILED by its own task; the error is re-raised when the step
\* is critical (as DAGExecutionError when it was an unexpected Exception)
StepFails(s, raised) ==
    /\ state' = MarkStepFailed(state, s)
    /\ progress' = ReportProgress(progress, s, FAILED)
    /\ step_error' = [step_error EXCEPT ![s] = TRUE]
    /\ tasks' = [tasks EXCEPT ![s] = IF steps[s].fail_on_error THEN raised ELSE "returned"]
    /\ UNCHANGED <<context, attempt, delays, suspend_context>>

\* a semaphore whose permit is never given back
SemaphoreRelease_Leak(v) == v

\* the exit of "async with self._semaphore": the permit is given back
SemaphoreRelease(v) == v + 1

\* The plugin call ends: the permit is released, then the output is handled or the
\* exception is handled by the except clauses of _run_with_retries.
PluginReturns(s) ==
    /\ Supervising
    /\ tasks[s] = "invoking"
    /\ semaphore' = SemaphoreRelease(semaphore)
    /\ LET o == PluginOutcome(s)
       IN CASE o = "ok" ->
                 /\ context' = [context EXCEPT ![s] = "ok"]
                 /\ tasks' = [tasks EXCEPT ![s] = "returned"]
                 /\ UNCHANGED <<state, step_error, attempt, delays, suspend_context, progress>>
            [] o = "PluginSuspendedException" ->
                 /\ state' = MarkStepSuspended(state, s)
                 /\ progress' = ReportProgress(progress, s, SUSPENDED)
                 /\ step_error' = [step_error EXCEPT ![s] = TRUE]
                 /\ suspend_context' = suspend_context \cup {s}
                 /\ tasks' = [tasks EXCEPT ![s] = "raised_suspended"]
                 /\ UNCHANGED <<context, attempt, delays>>
            [] Retryable(o) ->
                 IF RetryAgain(attempt[s])
                 THEN /\ delays' = [delays EXCEPT ![s] = Append(@, RetryDelay(attempt[s]))]
                      /\ attempt' = [attempt EXCEPT ![s] = @ + 1]
                      /\ tasks' = [tasks EXCEPT ![s] = "sleeping"]
                      /\ UNCHANGED <<state, step_error, context, suspend_context, progress>>
                 ELSE StepFails(s, "raised_error")
            [] o \in {"PluginError", "PluginInputError"} -> StepFails(s, "raised_error")
            [] OTHER -> StepFails(s, "raised_dag")
    /\ UNCHANGED <<steps, max_workers, resume_data, invocations, started, pc,
                   normal_phase_error, error_step, finally_errors, checkpoint, outcome, resume_vars, loop_vars, body_vars, component_vars, summaries>>

(***************************************************************************)
(* The end of executeDAG: the aggregate error, then the finally: block     *)
(* (finish_execution, _create_suspension_checkpoint, the summary).         *)
(***************************************************************************)
\* _create_suspension_checkpoint creates no checkpoint while steps are RUNNING
CheckpointCreated == suspend_context # {} /\ running_steps = {}

Snapshot == [dag_state |-> state, errors |-> step_error, context |-> context,
             resume_data |-> resume_data, suspended_at_steps |-> suspend_context]

\* "if self._progress_callback: self._report_summary_progress()": the statement
\* after _create_suspension_checkpoint in the finally: block of executeDAG
ReportSummaryProgress(n) == n + 1

Finish ==
    /\ pc = "finish"
    /\ pc' = "done"
    /\ IF CheckpointCreated
       THEN /\ checkpoint' = Snapshot
            /\ outcome' = "PipelineSuspendedException"
            /\ UNCHANGED summaries
       ELSE /\ UNCHANGED checkpoint
            /\ summaries' = ReportSummaryProgress(summaries)
            /\ outcome' = IF normal_phase_error # "none"
                             \/ \E s \in Steps : finally_errors[s] > 0
                          THEN "PipelineExecutionError" ELSE "returned"
    /\ UNCHANGED <<steps, max_workers, state, step_error, context, resume_data, tasks,
                   attempt, invocations, delays, started, semaphore, normal_phase_error,
                   error_step, finally_errors, suspend_context, resume_vars, loop_vars, body_vars, component_vars, progress>>

Next ==
    \/ NormalPhase
    \/ NormalWake
    \/ FinallyPhase
    \/ FinallyWake
    \/ Finish
    \/ \E s \in Steps : RunWithRetries(s)
    \/ \E s \in Steps : PluginReturns(s)

Spec == Init /\ [][Next]_vars

(***************************************************************************)
(* The runs whose end is checked: pipelines of unconditional dependencies  *)
(* whose steps are all critical or all non-critical.  The event loop of    *)
(* asyncio runs a coroutine that can run, and a plugin call ends: a step   *)
(* of the run that can be taken is taken at last.                          *)
(***************************************************************************)
InitTerminates ==
    /\ steps \in {p \in {MakePipeline(g, k, [s \in Steps |-> b], z) :
                            g \in {h \in DependencyChoices :
                                      \A s \in Steps : \A d \in h[s] : d.when = NoDep},
                            k \in PluginChoices(SpecKinds), b \in BOOLEAN,
                            z \in FinallyChoices} :
                  /\ ValidateSteps(p)
                  /\ \A s \in Steps : ~p[s].is_finally =>
                        \A d \in p[s].depends_on : ~p[d.step].is_finally}
    /\ max_workers \in 1..MaxWorkers
    /\ InitRun
    /\ resume_data = [s \in Steps |-> "absent"]
    /\ NoResume
    /\ NoProgress
    /\ NoLoop
    /\ BodyIdle
    /\ ComponentsIdle

SpecTerminates == InitTerminates /\ [][Next]_vars /\ WF_vars(Next)

(***************************************************************************)
(* A later executeDAG call on the same DAGExecutor, as                     *)
(* PipelineOrchestrator.run_pipeline makes it for every run: the same      *)
(* steps, a new context.  "if len(self._state.steps) == 0" is false after  *)
(* a run, so the DAGState of the earlier run is used; nothing assigns      *)
(* _suspend_context.  The call is made when no task of the earlier run is  *)
(* left.                                                                   *)
(***************************************************************************)
ExecuteDAG ==
    /\ pc = "done"
    /\ \A s \in Steps : tasks[s] = "none"
    /\ \A r \in Resumers : resume_pc[r] = "idle"
    /\ context' = [s \in Steps |-> "absent"]
    /\ resume_data' = [s \in Steps |-> "absent"]
    /\ attempt' = [s \in Steps |-> 0]
    /\ invocations' = [s \in Steps |-> 0]
    /\ delays' = [s \in Steps |-> <<>>]
    /\ started' = [s \in Steps |-> 0]
    /\ pc' = "normal"
    /\ normal_phase_error' = "none"
    /\ error_step' = 0
    /\ finally_errors' = [s \in Steps |-> 0]
    /\ outcome' = "none"
    /\ progress' = [s \in Steps |-> {}]
    /\ summaries' = 0
    /\ UNCHANGED <<steps, max_workers, state, step_error, tasks, semaphore,
                   suspend_context, checkpoint, resume_vars, loop_vars, body_vars,
                   component_vars>>

NextRerun ==
    \/ Next
    \/ ExecuteDAG

SpecRerun == InitTerminates /\ [][NextRerun]_vars

(***************************************************************************)
(* The runs of the pipelines whose plugins raise the errors the except     *)
(* clauses of _run_with_retries tell apart.                                *)
(***************************************************************************)
RetryKinds == {"ok", "RetryablePluginError", "PluginInputError", "Exception"}

\* the dependencies are unconditional: the retry loop reads no output
InitRetry ==
    /\ \E g \in {h \in DependencyChoices :
                    \A s \in Steps : \A d \in h[s] : d.when = NoDep},
          k \in PluginChoices(RetryKinds),
          f \in [Steps -> BOOLEAN], z \in FinallyChoices :
            /\ steps = MakePipeline(g, k, f, z)
            /\ ValidateSteps(steps)
            /\ \A s \in Steps : ~z[s] => \A d \in g[s] : ~z[d.step]
    /\ max_workers \in 1..MaxWorkers
    /\ InitRun
    /\ resume_data = [s \in Steps |-> "absent"]
    /\ NoResume
    /\ NoProgress
    /\ NoLoop
    /\ BodyIdle
    /\ ComponentsIdle

SpecRetry == InitRetry /\ [][Next]_vars

(***************************************************************************)
(* The runs of the pipelines whose plugins raise the fatal plugin errors.  *)
(***************************************************************************)
ErrorKinds == {"ok", "PluginError", "PluginInputError"}

InitErrors ==
    /\ \E g \in DependencyChoices, k \in PluginChoices(ErrorKinds),
          f \in [Steps -> BOOLEAN], z \in FinallyChoices :
            /\ steps = MakePipeline(g, k, f, z)
            /\ ValidateSteps(steps)
            /\ \A s \in Steps : ~z[s] => \A d \in g[s] : ~z[d.step]
    /\ max_workers \in 1..MaxWorkers
    /\ InitRun
    /\ resume_data = [s \in Steps |-> "absent"]
    /\ NoResume
    /\ NoProgress
    /\ NoLoop
    /\ BodyIdle
    /\ ComponentsIdle

SpecErrors == InitErrors /\ [][Next]_vars

(***************************************************************************)
(* LoopExecutionStrategy (src/src/core/loop_execution_strategy.py).  The   *)
(* task of a loop step runs execute_loop; every iteration awaits           *)
(* _run_loop_body, the executeDAG of a new DAGExecutor on the body steps,  *)
(* which has its own DAGState and semaphore and the progress callback of   *)
(* the parent.  A body run is seen by its outcome: executeDAG returned, or *)
(* it raised PipelineExecutionError; no plugin of a body suspends.         *)
(***************************************************************************)
\* body: the plugins of the body steps return or raise errors ("plain"), or one of
\* them may raise PluginSuspendedException ("suspending")
LoopBodies == {"plain", "suspending"}

\* collection: Unset, or the number of items context[collection] holds;
\* count: Unset (None) or the count; condition: "none" or the context key
LoopConfigs ==
    [collection : {Unset} \cup 0..MaxItems, count : {Unset} \cup 0..MaxCount,
     condition : {"none", "key"}, max_iterations : 1..MaxIterations,
     fail_fast : BOOLEAN, body : LoopBodies]

\* how a body run ends: executeDAG returned, or it raised PipelineExecutionError
BodyOutcomes == {"ok", "failed"}

\* a body run with a plugin that may raise PluginSuspendedException can also end
\* with the PipelineSuspendedException of the body executor
BodyOutcomesOf(cfg) ==
    IF cfg.body = "suspending" THEN BodyOutcomes \cup {"suspended"} ELSE BodyOutcomes

\* the checkpoint the body executor creates (_create_suspension_checkpoint with the
\* DAGState of the body; 0 stands for the suspended body step)
BodyCheckpoint == [dag_state |-> <<>>, errors |-> <<>>, context |-> <<>>,
                   resume_data |-> <<>>, suspended_at_steps |-> {0}]

\* execute_loop: "if loop_config.condition:" selects the condition-based loop
ConditionBased(cfg) == cfg.condition # "none"

\* len(items) of _execute_collection_or_count_loop: the collection, and
\* "if not items and loop_config.count is not None: items = list(range(count))"
Items(cfg) ==
    LET n == IF cfg.collection = Unset THEN 0 ELSE cfg.collection
    IN IF n = 0 /\ cfg.count # Unset THEN cfg.count ELSE n

\* a condition loop that allows one iteration more than max_iterations
NextIteration_OneMore(cfg, n, i, c) ==
    IF ConditionBased(cfg) THEN i <= cfg.max_iterations /\ c ELSE i < n

\* whether another iteration follows: "for i, item_data in enumerate(items)", or
\* "while loop_counter < max_iterations" and the condition is truthy
NextIteration(cfg, n, i, c) ==
    IF ConditionBased(cfg) THEN i < cfg.max_iterations /\ c ELSE i < n

\* a loop that goes on after every failure
FailFastStops_Never(cfg, o) == FALSE

\* "any_iteration_failed = True; if loop_config.fail_fast: raise": the failure of an
\* iteration ends a fail_fast loop
FailFastStops(cfg, o) == o = "failed" /\ cfg.fail_fast

\* execute_loop up to its first await: without an iteration the loop returns
ExecuteLoop(s) ==
    /\ Supervising
    /\ IsLoopStep(s)
    /\ tasks[s] = "created"
    /\ LET n == IF ConditionBased(loop_config) THEN 0 ELSE Items(loop_config)
       IN /\ items' = n
          /\ tasks' = [tasks EXCEPT ![s] =
                IF NextIteration(loop_config, n, 0, condition_value)
                THEN "in_body" ELSE "returned"]
    /\ UNCHANGED <<steps, max_workers, state, step_error, context, resume_data, attempt,
                   invocations, delays, started, semaphore, pc, normal_phase_error,
                   error_step, finally_errors, suspend_context, checkpoint, outcome,
                   resume_vars, report_vars, loop_config, loop_counter, iterations,
                   any_iteration_failed, condition_value, body_vars, component_vars>>

\* _run_loop_body returned or raised: the body executor has sent its summary to the
\* callback, the iteration context is merged into the loop context (the body may
\* have written the condition key), a failure ends a fail_fast loop, and after the
\* last iteration execute_loop raises if any iteration failed
LoopBodyReturns(s) ==
    /\ Supervising
    /\ IsLoopStep(s)
    /\ tasks[s] = "in_body"
    /\ body_semaphore = max_workers
    /\ body_invocations' = 0
    /\ \E o \in BodyOutcomesOf(loop_config),
          c \in IF ConditionBased(loop_config) THEN BOOLEAN ELSE {condition_value} :
         LET failed == any_iteration_failed \/ o = "failed"
         IN /\ iterations' = Append(iterations, o)
            /\ condition_value' = c
            /\ IF o = "suspended"
               THEN \* the body executor wrote its checkpoint and raised
                    \* PipelineSuspendedException before its summary; the loop
                    \* merges the iteration context and re-raises
                    /\ checkpoint' = BodyCheckpoint
                    /\ tasks' = [tasks EXCEPT ![s] = "raised_pipeline_suspended"]
                    /\ UNCHANGED <<summaries, any_iteration_failed, loop_counter>>
               ELSE /\ summaries' = ReportSummaryProgress(summaries)
                    /\ any_iteration_failed' = failed
                    /\ UNCHANGED checkpoint
                    /\ IF FailFastStops(loop_config, o)
                       THEN /\ tasks' = [tasks EXCEPT ![s] = "raised_error"]
                            /\ UNCHANGED loop_counter
                       ELSE /\ loop_counter' = loop_counter + 1
                            /\ tasks' = [tasks EXCEPT ![s] =
                                  IF NextIteration(loop_config, items, loop_counter + 1, c)
                                  THEN "in_body"
                                  ELSE IF failed THEN "raised_error" ELSE "returned"]
    /\ UNCHANGED <<steps, max_workers, state, step_error, context, resume_data, attempt,
                   invocations, delays, started, semaphore, pc, normal_phase_error,
                   error_step, finally_errors, suspend_context, outcome,
                   resume_vars, progress, loop_config, items, body_semaphore,
                   component_vars>>

\* the pipelines with one loop step: the other plugins succeed, the dependencies are
\* bare step names, the steps are all critical or all non-critical; a condition-based
\* loop has no count, and a loop without condition has the least max_iterations
LoopKinds == {"ok", "loop"}

InitLoop ==
    /\ \E g \in DependencyChoices, k \in PluginChoices(LoopKinds),
          f \in {[s \in Steps |-> b] : b \in BOOLEAN}, z \in FinallyChoices :
            /\ steps = MakePipeline(g, k, f, z)
            /\ ValidateSteps(steps)
            /\ \A s \in Steps : ~z[s] => \A d \in g[s] : ~z[d.step]
            /\ \A s \in Steps : \A d \in g[s] : d.when = NoDep
            /\ Cardinality({s \in Steps : k[s] = "loop"}) = 1
    /\ max_workers \in 1..MaxWorkers
    /\ InitRun
    /\ resume_data = [s \in Steps |-> "absent"]
    /\ NoResume
    /\ NoProgress
    /\ loop_config \in LoopConfigs
    /\ loop_config.body = "plain"
    /\ ConditionBased(loop_config) \/ loop_config.max_iterations = 1
    /\ ConditionBased(loop_config) =>
          (loop_config.collection \in {Unset, 0} /\ loop_config.count = Unset)
    /\ condition_value \in IF ConditionBased(loop_config) THEN BOOLEAN ELSE {FALSE}
    /\ LoopIdle
    /\ BodyIdle
    /\ ComponentsIdle

NextLoop ==
    \/ Next
    \/ \E s \in Steps : ExecuteLoop(s)
    \/ \E s \in Steps : LoopBodyReturns(s)

SpecLoop == InitLoop /\ [][NextLoop]_vars

\* the pipelines with one loop step whose body holds a plugin that may suspend; the
\* loop is a collection or count loop
InitLoopSuspend ==
    /\ \E g \in DependencyChoices, k \in PluginChoices(LoopKinds),
          f \in {[s \in Steps |-> b] : b \in BOOLEAN}, z \in FinallyChoices :
            /\ steps = MakePipeline(g, k, f, z)
            /\ ValidateSteps(steps)
            /\ \A s \in Steps : ~z[s] => \A d \in g[s] : ~z[d.step]
            /\ \A s \in Steps : \A d \in g[s] : d.when = NoDep
            /\ Cardinality({s \in Steps : k[s] = "loop"}) = 1
    /\ max_workers \in 1..MaxWorkers
    /\ InitRun
    /\ resume_data = [s \in Steps |-> "absent"]
    /\ NoResume
    /\ NoProgress
    /\ loop_config \in LoopConfigs
    /\ loop_config.body = "suspending"
    /\ ~ConditionBased(loop_config) /\ loop_config.max_iterations = 1
    /\ condition_value = FALSE
    /\ LoopIdle
    /\ BodyIdle
    /\ ComponentsIdle

SpecLoopSuspend == InitLoopSuspend /\ [][NextLoop]_vars

(***************************************************************************)
(* The plugin calls of a loop body.  The body executor is a DAGExecutor of *)
(* its own: the tasks of its steps take the permits of its semaphore, not  *)
(* of the semaphore of the executor that runs the loop step.               *)
(***************************************************************************)
\* a task of the body executor reaches "async with self._semaphore" and invokes its
\* plugin; the body has MaxBodySteps steps
BodyRunWithRetries(s) ==
    /\ Supervising
    /\ IsLoopStep(s)
    /\ tasks[s] = "in_body"
    /\ body_invocations < MaxBodySteps
    /\ body_semaphore > 0
    /\ body_semaphore' = body_semaphore - 1
    /\ body_invocations' = body_invocations + 1
    /\ UNCHANGED <<steps, max_workers, state, step_error, context, resume_data, tasks,
                   attempt, invocations, delays, started, semaphore, pc,
                   normal_phase_error, error_step, finally_errors, suspend_context,
                   checkpoint, outcome, resume_vars, report_vars, loop_vars,
                   component_vars>>

\* the plugin of a body step returns or raises: the permit goes back
BodyPluginReturns(s) ==
    /\ Supervising
    /\ IsLoopStep(s)
    /\ tasks[s] = "in_body"
    /\ body_semaphore < max_workers
    /\ body_semaphore' = body_semaphore + 1
    /\ UNCHANGED <<steps, max_workers, state, step_error, context, resume_data, tasks,
                   attempt, invocations, delays, started, semaphore, pc,
                   normal_phase_error, error_step, finally_errors, suspend_context,
                   checkpoint, outcome, resume_vars, report_vars, loop_vars,
                   body_invocations, component_vars>>

\* the pipelines with one count loop whose body steps succeed
InitLoopWorkers ==
    /\ \E g \in DependencyChoices, k \in PluginChoices(LoopKinds), z \in FinallyChoices :
            /\ steps = MakePipeline(g, k, [s \in Steps |-> FALSE], z)
            /\ ValidateSteps(steps)
            /\ \A s \in Steps : ~z[s] => \A d \in g[s] : ~z[d.step]
            /\ \A s \in Steps : \A d \in g[s] : d.when = NoDep
            /\ Cardinality({s \in Steps : k[s] = "loop"}) = 1
    /\ max_workers \in 1..MaxWorkers
    /\ InitRun
    /\ resume_data = [s \in Steps |-> "absent"]
    /\ NoResume
    /\ NoProgress
    /\ loop_config = [NoLoopConfig EXCEPT !.count = 1, !.max_iterations = 1]
    /\ condition_value = FALSE
    /\ LoopIdle
    /\ BodyIdle
    /\ ComponentsIdle

NextLoopWorkers ==
    \/ NextLoop
    \/ \E s \in Steps : BodyRunWithRetries(s)
    \/ \E s \in Steps : BodyPluginReturns(s)

SpecLoopWorkers == InitLoopWorkers /\ [][NextLoopWorkers]_vars

(***************************************************************************)
(* resume_from_checkpoint.  CheckpointManager (src/core/checkpoint_manager *)
(* .py) keeps the checkpoint and its resume flag: start_resume sets the    *)
(* flag and tells whether it was clear, cleanup_stale_locks clears a flag  *)
(* left by a crashed run, complete_resume clears the flag.                 *)
(***************************************************************************)
\* context.resume_data[step] of a resume call: nothing, data without the completion
\* marker, {"complete": true, "collected_data": ...}, or {"complete": true} alone
ResumeDataValues == {"absent", "partial", "complete", "complete_nodata"}
CompletionMarker == {"complete", "complete_nodata"}

\* a resume_from_checkpoint call between its successful start_resume and its end
InProgress(r) == resume_pc[r] \in {"resuming", "restored", "executing"}

\* "checkpoint = await self._checkpoint_manager.load_checkpoint(...)"; the calls are
\* numbered in the order in which they load the checkpoint
LoadCheckpoint(r) ==
    /\ resume_pc[r] = "idle"
    /\ \A q \in Resumers : q < r => resume_pc[q] # "idle"
    /\ ~reference.pending
    /\ checkpoint # NoCheckpoint
    /\ resume_pc' = [resume_pc EXCEPT ![r] = "loaded"]
    /\ UNCHANGED <<steps, max_workers, state, step_error, context, resume_data, tasks,
                   attempt, invocations, delays, started, semaphore, pc,
                   normal_phase_error, error_step, finally_errors, suspend_context,
                   checkpoint, outcome, resume_flag, restores, reference,
                   loop_vars, body_vars, component_vars, report_vars>>

\* "await self._checkpoint_manager.cleanup_stale_locks(context.task_id)"
CleanupStaleLocks(r) ==
    /\ resume_pc[r] = "loaded"
    /\ resume_pc' = [resume_pc EXCEPT ![r] = "cleaned"]
    /\ resume_flag' = IF resume_flag = "stale" THEN "clear" ELSE resume_flag
    /\ UNCHANGED <<steps, max_workers, state, step_error, context, resume_data, tasks,
                   attempt, invocations, delays, started, semaphore, pc,
                   normal_phase_error, error_step, finally_errors, suspend_context,
                   checkpoint, outcome, restores, reference,
                   loop_vars, body_vars, component_vars, report_vars>>

\* a resume that goes on whatever start_resume answers
ResumeProceeds_Always(acquired) == TRUE

\* "if not await self._checkpoint_manager.start_resume(...): raise RuntimeError(...)"
ResumeProceeds(acquired) == acquired

StartResume(r) ==
    /\ resume_pc[r] = "cleaned"
    /\ LET acquired == resume_flag = "clear"
       IN /\ resume_flag' = IF acquired THEN "set" ELSE resume_flag
          /\ resume_pc' = [resume_pc EXCEPT
                ![r] = IF ResumeProceeds(acquired) THEN "resuming" ELSE "refused"]
    /\ UNCHANGED <<steps, max_workers, state, step_error, context, resume_data, tasks,
                   attempt, invocations, delays, started, semaphore, pc,
                   normal_phase_error, error_step, finally_errors, suspend_context,
                   checkpoint, outcome, restores, reference,
                   loop_vars, body_vars, component_vars, report_vars>>

\* the status of step s after the loop over checkpoint.suspended_at_steps: with the
\* completion marker COMPLETED (mark_step_completed_from_suspension), with other
\* resume data PENDING (mark_step_resumed), without resume data as restored
ResumedStatus(cp, rd, s) ==
    IF s \in cp.suspended_at_steps /\ rd[s] # "absent"
    THEN IF rd[s] \in CompletionMarker THEN COMPLETED ELSE PENDING
    ELSE cp.dag_state[s]

\* restore_dag_state, restore_context, the new SuspendContext, the injection of
\* context.resume_data, and the loop over the suspended steps of the checkpoint
RestoreFromCheckpoint(r) ==
    /\ resume_pc[r] = "resuming"
    /\ \E given \in [checkpoint.suspended_at_steps -> ResumeDataValues] :
         LET rd == [s \in Steps |->
                      IF s \in DOMAIN given /\ given[s] # "absent"
                      THEN given[s] ELSE checkpoint.resume_data[s]]
         IN /\ resume_data' = rd
            /\ state' = [s \in Steps |-> ResumedStatus(checkpoint, rd, s)]
            /\ step_error' = [s \in Steps |->
                  IF s \in checkpoint.suspended_at_steps /\ rd[s] # "absent"
                  THEN FALSE ELSE checkpoint.errors[s]]
            /\ context' = [s \in Steps |->
                  IF s \in checkpoint.suspended_at_steps /\ rd[s] = "complete"
                  THEN "synthesized" ELSE checkpoint.context[s]]
    /\ suspend_context' = {}
    /\ restores' = [restores EXCEPT ![r] = @ + 1]
    /\ resume_pc' = [resume_pc EXCEPT ![r] = "restored"]
    /\ UNCHANGED <<steps, max_workers, tasks, attempt, invocations, delays, started,
                   semaphore, pc, normal_phase_error, error_step, finally_errors,
                   checkpoint, outcome, resume_flag, reference,
                   loop_vars, body_vars, component_vars, report_vars>>

\* "await self.executeDAG(context, steps)": the DAGState is not empty and is reused
ExecuteResumed(r) ==
    /\ resume_pc[r] = "restored"
    /\ resume_pc' = [resume_pc EXCEPT ![r] = "executing"]
    /\ tasks' = [s \in Steps |-> "none"]
    /\ attempt' = [s \in Steps |-> 0]
    /\ invocations' = [s \in Steps |-> 0]
    /\ delays' = [s \in Steps |-> <<>>]
    /\ started' = [s \in Steps |-> 0]
    /\ pc' = "normal"
    /\ normal_phase_error' = "none"
    /\ error_step' = 0
    /\ finally_errors' = [s \in Steps |-> 0]
    /\ outcome' = "none"
    /\ progress' = [s \in Steps |-> {}]
    /\ summaries' = 0
    /\ UNCHANGED <<steps, max_workers, state, step_error, context, resume_data,
                   semaphore, suspend_context, checkpoint, resume_flag, restores,
                   reference, loop_vars, body_vars, component_vars>>

\* executeDAG returned: complete_resume; it raised: the error is re-raised
EndResume(r) ==
    /\ resume_pc[r] = "executing"
    /\ pc = "done"
    /\ IF outcome = "returned"
       THEN /\ resume_flag' = "clear"
            /\ resume_pc' = [resume_pc EXCEPT ![r] = "completed"]
       ELSE /\ resume_pc' = [resume_pc EXCEPT ![r] = "failed"]
            /\ UNCHANGED resume_flag
    /\ UNCHANGED <<steps, max_workers, state, step_error, context, resume_data, tasks,
                   attempt, invocations, delays, started, semaphore, pc,
                   normal_phase_error, error_step, finally_errors, suspend_context,
                   checkpoint, outcome, restores, reference,
                   loop_vars, body_vars, component_vars, report_vars>>

\* The run that never suspends (every suspending plugin finds its data in the
\* context) has ended: its COMPLETED steps are kept, and the same pipeline is run by
\* a new executor on a new context.
ReferenceEnd ==
    /\ reference.pending
    /\ pc = "done"
    /\ reference' = [pending |-> FALSE, completed |-> completed_steps]
    /\ state' = [s \in Steps |-> PENDING]
    /\ step_error' = [s \in Steps |-> FALSE]
    /\ context' = [s \in Steps |-> "absent"]
    /\ resume_data' = [s \in Steps |-> "absent"]
    /\ tasks' = [s \in Steps |-> "none"]
    /\ attempt' = [s \in Steps |-> 0]
    /\ invocations' = [s \in Steps |-> 0]
    /\ delays' = [s \in Steps |-> <<>>]
    /\ started' = [s \in Steps |-> 0]
    /\ semaphore' = max_workers
    /\ pc' = "normal"
    /\ normal_phase_error' = "none"
    /\ error_step' = 0
    /\ finally_errors' = [s \in Steps |-> 0]
    /\ suspend_context' = {}
    /\ checkpoint' = NoCheckpoint
    /\ outcome' = "none"
    /\ progress' = [s \in Steps |-> {}]
    /\ summaries' = 0
    /\ UNCHANGED <<steps, max_workers, resume_pc, resume_flag, restores, loop_vars, body_vars, component_vars>>

ResumeKinds == {"ok", "PluginSuspendedException"}

\* a pipeline with a suspending step; first the run in which no plugin suspends
InitResume ==
    /\ \E g \in DependencyChoices, k \in PluginChoices(ResumeKinds), z \in FinallyChoices :
            /\ steps = MakePipeline(g, k, [s \in Steps |-> FALSE], z)
            /\ ValidateSteps(steps)
            /\ \A s \in Steps : ~z[s] => \A d \in g[s] : ~z[d.step]
            /\ \E s \in Steps : k[s] = "PluginSuspendedException"
    /\ max_workers \in 1..MaxWorkers
    /\ InitRun
    /\ resume_data = [s \in Steps |->
          IF steps[s].plugin = "PluginSuspendedException" THEN "partial" ELSE "absent"]
    /\ resume_pc = [r \in Resumers |-> "idle"]
    /\ resume_flag \in {"clear", "stale"}
    /\ restores = [r \in Resumers |-> 0]
    /\ reference = [pending |-> TRUE, completed |-> {}]
    /\ NoProgress
    /\ NoLoop
    /\ BodyIdle
    /\ ComponentsIdle

NextResume ==
    \/ Next
    \/ ReferenceEnd
    \/ \E r \in Resumers : LoadCheckpoint(r)
    \/ \E r \in Resumers : CleanupStaleLocks(r)
    \/ \E r \in Resumers : StartResume(r)
    \/ \E r \in Resumers : RestoreFromCheckpoint(r)
    \/ \E r \in Resumers : ExecuteResumed(r)
    \/ \E r \in Resumers : EndResume(r)

SpecResume == InitResume /\ [][NextResume]_vars

(***************************************************************************)
(* The executor is idle while the components around it are exercised: a    *)
(* pipeline of three independent steps that has not been started.          *)
(***************************************************************************)
ExecutorIdle ==
    /\ steps = [s \in Steps |-> [plugin |-> "ok", is_finally |-> FALSE,
                                  depends_on |-> {}, fail_on_error |-> FALSE]]
    /\ max_workers = 1
    /\ InitRun
    /\ resume_data = [s \in Steps |-> "absent"]
    /\ NoResume
    /\ NoProgress
    /\ NoLoop
    /\ BodyIdle

\* the components other than c are idle
OthersIdle(c) ==
    /\ ExecutorIdle
    /\ c = "history" \/ HistoryIdle
    /\ c = "scope" \/ ScopeIdle
    /\ c = "saving" \/ SavingIdle
    /\ c = "chain" \/ ChainIdle
    /\ c = "skip" \/ SkipIdle
    /\ c = "validation" \/ ValidationIdle
    /\ c = "mcp" \/ McpIdle
    /\ c = "order" \/ OrderIdle
    /\ c = "stream" \/ StreamIdle

(***************************************************************************)
(* TaskManager: the mutations of task_history.json.  Every caller (a       *)
(* thread or a process with its own TaskManager on the same base_dir)      *)
(* performs one mutation.  "with self._file_access_lock" is Acquire and    *)
(* Release; a nested "with" of the holder (the lock is re-entrant) is not  *)
(* a step.                                                                 *)
(*   update_task_status, update_step_progress:                             *)
(*       start -Acquire-> locked -Read-> read -Write-> written -Release->  *)
(*   create_task (through _append_history_record):                         *)
(*       start -Acquire-> append -AppendWrite-> written -Release-> done    *)
(*   update_task_history (the artifact-history middleware):                *)
(*       start -Acquire-> locked -Read-> read -Release-> modified          *)
(*             -Acquire-> append -AppendWrite-> written -Release-> done    *)
(***************************************************************************)
SingleHold(p) == mutation[p].kind \in {"update_task_status", "update_step_progress"}

\* the task a caller mutates
TaskOf(p) == IF mutation[p].kind = "create_task" THEN p ELSE 0

HistoryAcquire(p) ==
    /\ file_lock = 0
    /\ \/ /\ mutator_pc[p] = "start"
          /\ mutator_pc' = [mutator_pc EXCEPT ![p] =
                IF mutation[p].kind = "create_task" THEN "append" ELSE "locked"]
       \/ /\ mutator_pc[p] = "modified"
          /\ mutator_pc' = [mutator_pc EXCEPT ![p] = "append"]
    /\ file_lock' = p
    /\ UNCHANGED <<history_file, mutation, mutator_tasks, history_frame>>

\* "tasks = self._read_task_history()"
HistoryRead(p) ==
    /\ file_lock = p
    /\ mutator_pc[p] = "locked"
    /\ mutator_tasks' = [mutator_tasks EXCEPT ![p] = history_file]
    /\ mutator_pc' = [mutator_pc EXCEPT ![p] = "read"]
    /\ UNCHANGED <<history_file, file_lock, mutation, history_frame>>

\* json.dump({"tasks": tasks}, f) of update_task_status and update_step_progress;
\* both return without a write if the task is not in the tasks they read
HistoryWrite(p) ==
    /\ file_lock = p
    /\ mutator_pc[p] = "read"
    /\ SingleHold(p)
    /\ history_file' =
          IF mutation[p].kind = "update_task_status"
          THEN UpdateTaskStatus(mutator_tasks[p], TaskOf(p), mutation[p])
          ELSE UpdateStepProgress(mutator_tasks[p], TaskOf(p), mutation[p])
    /\ mutator_pc' = [mutator_pc EXCEPT ![p] = "written"]
    /\ UNCHANGED <<file_lock, mutation, mutator_tasks, history_frame>>

\* _append_history_record under its lock: the file is read again and the record is
\* put under its task id
HistoryAppendWrite(p) ==
    /\ file_lock = p
    /\ mutator_pc[p] = "append"
    /\ history_file' = AppendHistoryRecord(history_file, TaskOf(p),
          IF mutation[p].kind = "create_task" THEN CreatedTaskRecord
          ELSE ArtifactRecord(mutator_tasks[p], TaskOf(p), p))
    /\ mutator_pc' = [mutator_pc EXCEPT ![p] = "written"]
    /\ UNCHANGED <<file_lock, mutation, mutator_tasks, history_frame>>

\* the end of a "with self._file_access_lock" block; the middleware leaves the block
\* of _read_task_history with the tasks it read (and returns if its task is missing)
HistoryRelease(p) ==
    /\ file_lock = p
    /\ \/ /\ mutator_pc[p] = "written"
          /\ mutator_pc' = [mutator_pc EXCEPT ![p] = "done"]
       \/ /\ mutator_pc[p] = "read"
          /\ ~SingleHold(p)
          /\ mutator_pc' = [mutator_pc EXCEPT ![p] =
                IF mutator_tasks[p][TaskOf(p)].exists THEN "modified" ELSE "done"]
    /\ file_lock' = 0
    /\ UNCHANGED <<history_file, mutation, mutator_tasks, history_frame>>

InitHistory ==
    /\ OthersIdle("history")
    /\ history_file = InitialHistory
    /\ file_lock = 0
    /\ mutation \in [Mutators -> Mutations]
    /\ mutator_pc = [p \in Mutators |-> "start"]
    /\ mutator_tasks = [p \in Mutators |-> NoTasks]

NextHistory ==
    \/ \E p \in Mutators : HistoryAcquire(p)
    \/ \E p \in Mutators : HistoryRead(p)
    \/ \E p \in Mutators : HistoryWrite(p)
    \/ \E p \in Mutators : HistoryAppendWrite(p)
    \/ \E p \in Mutators : HistoryRelease(p)

SpecHistory == InitHistory /\ [][NextHistory]_vars

(***************************************************************************)
(* _run_with_retries and the context of the plugin.  Each attempt is a new *)
(* _run_with_retries call: it starts from self._current_context, spawns    *)
(* the child for an ExecutionContext, and invokes the plugin, which writes *)
(* keys of the context it got before it returns or raises.                 *)
(***************************************************************************)
\* the call up to the plugin invocation
ScopeInvoke ==
    /\ scope_pc = "start"
    /\ scope' = SpawnChild
    /\ seen' = [k \in ContextKeys |->
                    GetItem(context_class, SpawnChild, pipeline_context, k)]
    /\ scope_pc' = "invoked"
    /\ UNCHANGED <<context_class, pipeline_context, scope_attempt, scope_frame>>

\* the plugin executes context[k] = value
ScopeSetItem(k) ==
    /\ scope_pc = "invoked"
    /\ scope' = SetItemChild(context_class, scope, k, scope_attempt + 1)
    /\ pipeline_context' = SetItemData(context_class, pipeline_context, k,
                                       scope_attempt + 1)
    /\ UNCHANGED <<context_class, scope_attempt, scope_pc, seen, scope_frame>>

\* the plugin raises RetryablePluginError: "if attempt < max_retries - 1" the call
\* sleeps and calls _run_with_retries with attempt + 1, otherwise the step fails
ScopeRetry ==
    /\ scope_pc = "invoked"
    /\ IF RetryAgain(scope_attempt)
       THEN scope_attempt' = scope_attempt + 1 /\ scope_pc' = "start"
       ELSE scope_pc' = "done" /\ UNCHANGED scope_attempt
    /\ UNCHANGED <<context_class, pipeline_context, scope, seen, scope_frame>>

\* the plugin returns
ScopeReturn ==
    /\ scope_pc = "invoked"
    /\ scope_pc' = "done"
    /\ UNCHANGED <<context_class, pipeline_context, scope, scope_attempt, seen,
                   scope_frame>>

InitScope ==
    /\ OthersIdle("scope")
    /\ context_class \in {"ExecutionContext", "PipelineContext"}
    /\ pipeline_context = [k \in ContextKeys |-> Original]
    /\ scope = SpawnChild
    /\ scope_attempt = 0
    /\ scope_pc = "start"
    /\ seen = [k \in ContextKeys |-> Original]

NextScope ==
    \/ ScopeInvoke
    \/ \E k \in ContextKeys : ScopeSetItem(k)
    \/ ScopeRetry
    \/ ScopeReturn

SpecScope == InitScope /\ [][NextScope]_vars

(***************************************************************************)
(* _run_with_retries and the saved artifacts.  The tasks of two steps run  *)
(* on one event loop; a task runs until it awaits (the plugin call, the    *)
(* awaits inside the plugin, handle_output).                               *)
(***************************************************************************)
\* the call up to the plugin invocation: "saved_artifacts = []" and
\* context.clear_saved_artifacts()
SavingStart(s) ==
    /\ saving_pc[s] = "start"
    /\ artifact_list' = <<>>
    /\ saving_pc' = [saving_pc EXCEPT ![s] = "invoked"]
    /\ UNCHANGED <<recorded, saved_artifacts, saving_frame>>

\* the plugin records an artifact in the context it got
SavingRecord(s) ==
    /\ saving_pc[s] = "invoked"
    /\ recorded[s] < MaxArtifacts
    /\ recorded' = [recorded EXCEPT ![s] = @ + 1]
    /\ artifact_list' = Append(artifact_list, <<s, recorded[s] + 1>>)
    /\ UNCHANGED <<saving_pc, saved_artifacts, saving_frame>>

\* the plugin returns: the first extend, then "await handle_output"
SavingPluginReturns(s) ==
    /\ saving_pc[s] = "invoked"
    /\ saved_artifacts' = [saved_artifacts EXCEPT ![s] = ExtendSaved(@, artifact_list)]
    /\ saving_pc' = [saving_pc EXCEPT ![s] = "handle_output"]
    /\ UNCHANGED <<artifact_list, recorded, saving_frame>>

\* handle_output returns: the second extend, and the call returns saved_artifacts
SavingOutputHandled(s) ==
    /\ saving_pc[s] = "handle_output"
    /\ saved_artifacts' = [saved_artifacts EXCEPT ![s] = ExtendSaved(@, artifact_list)]
    /\ saving_pc' = [saving_pc EXCEPT ![s] = "completed"]
    /\ UNCHANGED <<artifact_list, recorded, saving_frame>>

\* one step runs (the other is not part of the run) or both run
InitSaving ==
    /\ OthersIdle("saving")
    /\ artifact_list = <<>>
    /\ saving_pc \in [SavingSteps -> {"start", "absent"}]
    /\ recorded = [s \in SavingSteps |-> 0]
    /\ saved_artifacts = [s \in SavingSteps |-> <<>>]

NextSaving ==
    \/ \E s \in SavingSteps : SavingStart(s)
    \/ \E s \in SavingSteps : SavingRecord(s)
    \/ \E s \in SavingSteps : SavingPluginReturns(s)
    \/ \E s \in SavingSteps : SavingOutputHandled(s)

SpecSaving == InitSaving /\ [][NextSaving]_vars

(***************************************************************************)
(* ArtifactMiddleware.execute.  save_artifact builds the command and       *)
(* awaits command_handler.execute, which awaits middleware.execute: the    *)
(* whole chain runs inside "async with self._lock".  Every "await          *)
(* handler(current_command)" is a point where the event loop may run the   *)
(* execute call of another command.                                        *)
(***************************************************************************)
\* asyncio.Lock.acquire: the lock is taken at once if it is unlocked and nobody
\* waits; otherwise the caller joins the waiters
AcquireChainLock_Always(c) ==
    /\ chain_pc' = [chain_pc EXCEPT ![c] = "in_chain"]
    /\ UNCHANGED <<chain_lock, chain_waiters>>

AcquireChainLock(c) ==
    IF chain_lock = 0 /\ chain_waiters = <<>>
    THEN /\ chain_lock' = c
         /\ chain_pc' = [chain_pc EXCEPT ![c] = "in_chain"]
         /\ UNCHANGED chain_waiters
    ELSE /\ chain_waiters' = Append(chain_waiters, c)
         /\ chain_pc' = [chain_pc EXCEPT ![c] = "waiting"]
         /\ UNCHANGED chain_lock

\* asyncio.Lock.release: the first waiter is woken and gets the lock
ReleaseChainLock(c) ==
    IF chain_lock # c
    THEN UNCHANGED <<chain_lock, chain_waiters>>
    ELSE IF chain_waiters = <<>>
         THEN chain_lock' = 0 /\ UNCHANGED chain_waiters
         ELSE chain_lock' = Head(chain_waiters) /\ chain_waiters' = Tail(chain_waiters)

\* save_artifact up to "async with self._lock"
ChainSubmit(c) ==
    /\ chain_pc[c] = "submitted"
    /\ AcquireChainLock(c)
    /\ UNCHANGED <<command_valid, chain_pos, handled, chain_frame>>

\* a waiter that was given the lock goes on
ChainWake(c) ==
    /\ chain_pc[c] = "waiting"
    /\ chain_lock = c
    /\ chain_pc' = [chain_pc EXCEPT ![c] = "in_chain"]
    /\ UNCHANGED <<command_valid, chain_lock, chain_waiters, chain_pos, handled,
                   chain_frame>>

\* "current_command = await handler(current_command)": the next handler runs; if it
\* raises, execute leaves the "async with" block with a MiddlewareError
ChainHandler(c) ==
    /\ chain_pc[c] = "in_chain"
    /\ chain_pos[c] < Len(Handlers)
    /\ LET h == Handlers[chain_pos[c] + 1]
       IN /\ handled' = Append(handled, <<c, chain_pos[c] + 1>>)
          /\ chain_pos' = [chain_pos EXCEPT ![c] = @ + 1]
          /\ IF HandlerRaises(h, command_valid[c])
             THEN /\ chain_pc' = [chain_pc EXCEPT ![c] = "returned"]
                  /\ ReleaseChainLock(c)
             ELSE UNCHANGED <<chain_pc, chain_lock, chain_waiters>>
    /\ UNCHANGED <<command_valid, chain_frame>>

\* "return current_command" after the last handler
ChainReturn(c) ==
    /\ chain_pc[c] = "in_chain"
    /\ chain_pos[c] = Len(Handlers)
    /\ chain_pc' = [chain_pc EXCEPT ![c] = "returned"]
    /\ ReleaseChainLock(c)
    /\ UNCHANGED <<command_valid, chain_pos, handled, chain_frame>>

InitChain ==
    /\ OthersIdle("chain")
    /\ command_valid \in [Commands -> BOOLEAN]
    /\ chain_lock = 0
    /\ chain_waiters = <<>>
    /\ chain_pc = [c \in Commands |-> "submitted"]
    /\ chain_pos = [c \in Commands |-> 0]
    /\ handled = <<>>

NextChain ==
    \/ \E c \in Commands : ChainSubmit(c)
    \/ \E c \in Commands : ChainWake(c)
    \/ \E c \in Commands : ChainHandler(c)
    \/ \E c \in Commands : ChainReturn(c)

SpecChain == InitChain /\ [][NextChain]_vars

(***************************************************************************)
(* _execute_collection_or_count_loop on a context that holds processed     *)
(* marks: the start index is computed, then "for i, item_data in           *)
(* enumerate(items)" skips i < start_index and runs the body for the rest. *)
(***************************************************************************)
SkipProcessed ==
    /\ skip_pc = "called"
    /\ start_index' = StartIndex(collection, processed_marks, loop_iteration)
    /\ skip_pc' = IF collection = <<>> THEN "returned" ELSE "iterating"
    /\ UNCHANGED <<collection, processed_count, processed_marks, loop_iteration,
                   executed, skip_frame>>

\* the iteration of the next index that is not skipped
SkipIteration ==
    /\ skip_pc = "iterating"
    /\ LET i == IF executed = <<>> THEN start_index
                ELSE executed[Len(executed)] + 1
       IN IF i < Len(collection)
          THEN executed' = Append(executed, i) /\ UNCHANGED skip_pc
          ELSE skip_pc' = "returned" /\ UNCHANGED executed
    /\ UNCHANGED <<collection, processed_count, processed_marks, loop_iteration,
                   start_index, skip_frame>>

\* the collections of at most MaxItems + 1 items whose first k items are marked as
\* processed; the loop context holds an iteration index (a resume) or none
InitSkip ==
    /\ OthersIdle("skip")
    /\ collection \in Collections(MaxItems + 1)
    /\ processed_count \in 0..Len(collection)
    /\ processed_marks = {collection[i] : i \in 1..processed_count}
    /\ loop_iteration \in {Unset} \cup 0..(Len(collection) - 1)
    /\ start_index = 0
    /\ executed = <<>>
    /\ skip_pc = "called"

NextSkip ==
    \/ SkipProcessed
    \/ SkipIteration

SpecSkip == InitSkip /\ [][NextSkip]_vars

(***************************************************************************)
(* validate_pipeline is called with a definition.                          *)
(***************************************************************************)
Validate ==
    /\ validation = "none"
    /\ validation' = ValidatePipeline(definition)
    /\ UNCHANGED <<definition, validation_frame>>

\* every definition over Steps; only step 1 may name a plugin the registry lacks
InitValidation ==
    /\ OthersIdle("validation")
    /\ definition \in Definitions
    /\ \A s \in Steps \ {1} : definition.steps[s].has_plugin
    /\ validation = "none"

NextValidation == Validate

SpecValidation == InitValidation /\ [][NextValidation]_vars

(***************************************************************************)
(* MCPServer._handle_call_tool: the checks, then _execute_tool (which      *)
(* creates the execution record and runs the plugin or the pipeline), then *)
(* the usage statistics.  An error of the execution becomes a 500.         *)
(***************************************************************************)
HandleCallTool(t) ==
    /\ calls < MaxCalls
    /\ calls' = calls + 1
    /\ LET rejected == Rejection(tool_registry, t)
       IN IF rejected # 0
          THEN /\ last_call' = [tool |-> t, status |-> rejected]
               /\ UNCHANGED <<usage_count, execution_updates>>
          ELSE /\ execution_updates' = [execution_updates EXCEPT ![t] = @ + 1]
               /\ \/ /\ last_call' = [tool |-> t, status |-> 200]
                     /\ usage_count' = [usage_count EXCEPT ![t] = @ + 1]
                  \/ /\ last_call' = [tool |-> t, status |-> 500]
                     /\ UNCHANGED usage_count
    /\ UNCHANGED <<tool_registry, mcp_frame>>

InitMcp ==
    /\ OthersIdle("mcp")
    /\ tool_registry \in Registries
    /\ usage_count = [t \in ToolNames |-> 0]
    /\ execution_updates = [t \in ToolNames |-> 0]
    /\ last_call = NoCall
    /\ calls = 0

NextMcp == \E t \in ToolNames : HandleCallTool(t)

SpecMcp == InitMcp /\ [][NextMcp]_vars

(***************************************************************************)
(* A call of MCPToolRegistry.get_execution_order.                          *)
(***************************************************************************)
ExecutionOrder ==
    /\ ~execution_order.done
    /\ execution_order' = GetExecutionOrder(tool_dependencies, tool_names, set_order)
    /\ UNCHANGED <<tool_dependencies, tool_names, set_order, order_frame>>

InitOrder ==
    /\ OthersIdle("order")
    /\ tool_dependencies \in Dependencies
    /\ tool_names \in NameLists
    /\ set_order \in SetOrders
    /\ execution_order = NoOrder

NextOrder == ExecutionOrder

SpecOrder == InitOrder /\ [][NextOrder]_vars

(***************************************************************************)
(* MCPServer._execute_tool and _stream_execution_progress.  The coroutines *)
(* of the server run on one event loop: a step runs from one await (or     *)
(* yield) to the next.                                                     *)
(***************************************************************************)
\* time passes
Tick ==
    /\ now < MaxClock
    /\ now' = now + 1
    /\ UNCHANGED <<exec_tool, exec_raises, exec_pc, exec_id, update_lists, stream_pc,
                   last_sent, delivered, stream_frame>>

\* _execute_tool up to the first await.  An atomic tool: the list is created, the
\* start update is appended, plugin_instance.run is awaited.  A pipeline tool:
\* the list is created, PipelineOrchestrator(container=..., progress_callback=...)
\* raises TypeError (its __init__ has no such parameter), the error update is
\* appended and the error is raised
ExecuteTool(c) ==
    /\ exec_pc[c] = "idle"
    /\ LET id == ExecutionId(exec_tool[c], now)
       IN /\ exec_id' = [exec_id EXCEPT ![c] = id]
          /\ IF ToolType(exec_tool[c]) = "atomic"
             THEN /\ update_lists' = NewList(update_lists, id, Update(c, RUNNING))
                  /\ exec_pc' = [exec_pc EXCEPT ![c] = "running"]
             ELSE /\ update_lists' = NewList(update_lists, id, Update(c, FAILED))
                  /\ exec_pc' = [exec_pc EXCEPT ![c] = "done"]
    /\ UNCHANGED <<now, exec_tool, exec_raises, stream_pc, last_sent, delivered,
                   stream_frame>>

\* plugin_instance.run returns or raises: the completion update or the error
\* update is appended
PluginRunEnds(c) ==
    /\ exec_pc[c] = "running"
    /\ update_lists' = AppendUpdate(update_lists, exec_id[c],
                            Update(c, IF exec_raises[c] THEN FAILED ELSE COMPLETED))
    /\ exec_pc' = [exec_pc EXCEPT ![c] = "done"]
    /\ UNCHANGED <<now, exec_tool, exec_raises, exec_id, stream_pc, last_sent, delivered,
                   stream_frame>>

\* GET /mcp/progress/{execution_id} for the id of execution k
StreamOpen(k) ==
    /\ stream_pc[k] = "idle"
    /\ exec_pc[k] # "idle"
    /\ stream_pc' = [stream_pc EXCEPT ![k] = "loop"]
    /\ UNCHANGED <<now, exec_tool, exec_raises, exec_pc, exec_id, update_lists, last_sent,
                   delivered, stream_frame>>

\* one pass of the while loop up to its first yield: the updates from last_sent on
\* are yielded; with nothing to yield the pass goes on to the completion check and
\* to the sleep
StreamLoop(k) ==
    /\ stream_pc[k] = "loop"
    /\ LET updates == update_lists[exec_id[k]]
           new == SubSeq(updates, last_sent[k] + 1, Len(updates))
       IN IF new # <<>>
          THEN /\ delivered' = [delivered EXCEPT ![k] = @ \o new]
               /\ last_sent' = [last_sent EXCEPT ![k] = Len(updates)]
               /\ stream_pc' = [stream_pc EXCEPT ![k] = "yielded"]
          ELSE /\ ExecutionComplete(updates)
               /\ stream_pc' = [stream_pc EXCEPT ![k] = "ended"]
               /\ UNCHANGED <<delivered, last_sent>>
    /\ UNCHANGED <<now, exec_tool, exec_raises, exec_pc, exec_id, update_lists,
                   stream_frame>>

\* after the yields: "if updates and updates[-1].status in [...]: break", else
\* the sleep and the next pass
StreamCheck(k) ==
    /\ stream_pc[k] = "yielded"
    /\ stream_pc' = [stream_pc EXCEPT ![k] =
          IF ExecutionComplete(update_lists[exec_id[k]]) THEN "ended" ELSE "loop"]
    /\ UNCHANGED <<now, exec_tool, exec_raises, exec_pc, exec_id, update_lists, last_sent,
                   delivered, stream_frame>>

InitStream ==
    /\ OthersIdle("stream")
    /\ now = 0
    /\ exec_tool \in [Executions -> ExecTools]
    /\ exec_raises \in [Executions -> BOOLEAN]
    /\ exec_pc = [c \in Executions |-> "idle"]
    /\ exec_id = [c \in Executions |-> <<>>]
    /\ update_lists = <<>>
    /\ stream_pc = [k \in Executions |-> "idle"]
    /\ last_sent = [k \in Executions |-> 0]
    /\ delivered = [k \in Executions |-> <<>>]

NextStream ==
    \/ Tick
    \/ \E c \in Executions : ExecuteTool(c)
    \/ \E c \in Executions : PluginRunEnds(c)
    \/ \E k \in Executions : StreamOpen(k)
    \/ \E k \in Executions : StreamLoop(k)
    \/ \E k \in Executions : StreamCheck(k)

SpecStream == InitStream /\ [][NextStream]_vars

\* the event loop runs every coroutine that can run, clients open the streams
SpecStreamLive == SpecStream /\ WF_vars(NextStream)

(***************************************************************************)
(* Properties of one executeDAG run (Spec).                                *)
(***************************************************************************)
Finished == pc = "done"
CriticalFailure == normal_phase_error = "DAGExecutionError"

RECURSIVE DependsOn(_, _)
\* s depends on t, directly or transitively
DependsOn(s, t) ==
    \E d \in steps[s].depends_on : d.step = t \/ DependsOn(d.step, t)

\* C1: at every instant the number of steps whose DAGState status is RUNNING is at
\* most max_workers.
C1_RunningWithinMaxWorkers == Cardinality(running_steps) <= max_workers

\* the dependencies of s allow it to run: each COMPLETED, each conditional one with
\* a recorded output that satisfies the predicate
DependenciesMet(s) ==
    \A d \in steps[s].depends_on :
        /\ state[d.step] = COMPLETED
        /\ d.when # NoDep => context[d.step] = d.when

BecomesRunning(s) == state[s] # RUNNING /\ state'[s] = RUNNING

\* C2 (as claimed): any step is marked RUNNING only in a state where each of its
\* dependencies is COMPLETED and each conditional one is satisfied.
C2_AnyStepRunsAfterDependencies ==
    [][\A s \in Steps : BecomesRunning(s) => DependenciesMet(s)]_vars

\* C2 (amended): a non-finally step is marked RUNNING only when its dependencies are
\* COMPLETED and its conditional dependencies satisfied; a finally step only when
\* every non-finally step has ended (COMPLETED, FAILED, SKIPPED or SUSPENDED) and its
\* dependencies among the finally steps are COMPLETED.  So every dependency has ended
\* when its dependent starts.
C2_RunsAfterDependencies ==
    [][\A s \in Steps : BecomesRunning(s) =>
          /\ ~steps[s].is_finally => DependenciesMet(s)
          /\ steps[s].is_finally =>
                /\ \A t \in NormalSteps : state[t] \in Terminal
                /\ \A d \in steps[s].depends_on :
                      steps[d.step].is_finally => state[d.step] = COMPLETED
          /\ \A d \in steps[s].depends_on : state[d.step] \in Terminal]_vars

\* C2 witness: a step with a dependency and a conditional dependency is RUNNING
C2_Witness ==
    \E s \in Steps :
        /\ state[s] = RUNNING
        /\ \E d \in steps[s].depends_on : d.when # NoDep
        /\ \E d \in steps[s].depends_on : d.when = NoDep

\* C3: when a critical step is FAILED at the end of a run, every step that depends
\* on it, directly or transitively, is SKIPPED.
C3_DependentsOfCriticalFailureSkipped ==
    Finished =>
        \A s, t \in Steps :
            (state[s] = FAILED /\ steps[s].fail_on_error /\ DependsOn(t, s))
                => state[t] = SKIPPED

\* C4: when the run has ended, every finally step was started exactly once.
C4_FinallyStepsStartedOnce ==
    Finished => \A s \in FinallySteps : started[s] = 1

\* once the normal phase has been left on a critical failure, no non-finally step is
\* started any more
C5_NoStartAfterCriticalFailure ==
    [][CriticalFailure => \A s \in NormalSteps : started'[s] = started[s]]_vars

\* C5: when a run with a critical failure has ended, every step that was started has
\* reached COMPLETED, FAILED or SUSPENDED (none is left RUNNING).
C5_InFlightDrained ==
    (Finished /\ CriticalFailure) =>
        \A s \in Steps : started[s] > 0 => state[s] \in {COMPLETED, FAILED, SUSPENDED}

\* C6: a suspended step is SUSPENDED, the steps that are ready and do not depend on
\* it are still run to the end, and the run ends, after the finally phase, with a
\* checkpoint and PipelineSuspended.
C6_SuspensionEndsInCheckpoint ==
    (Finished /\ suspend_context # {}) =>
        /\ \A s \in suspend_context : state[s] = SUSPENDED
        /\ ~CriticalFailure => (running_steps = {} /\ ReadySteps = {})
        /\ checkpoint # NoCheckpoint
        /\ outcome = "PipelineSuspendedException"

\* step s has a conditional dependency whose source COMPLETED with an output that
\* does not satisfy the predicate
UnmetCondition(s) ==
    \E d \in steps[s].depends_on :
        d.when # NoDep /\ state[d.step] = COMPLETED /\ context[d.step] # d.when

\* C12: a non-finally step with an unmet conditional dependency is never RUNNING or
\* FAILED, and it is SKIPPED when the run has ended
C12_UnmetConditionSkipped ==
    \A s \in NormalSteps : UnmetCondition(s) =>
        /\ state[s] \notin {RUNNING, FAILED}
        /\ Finished => state[s] = SKIPPED

\* C13: when a non-critical step has FAILED, the normal phase goes on without an
\* error of that step; when the run has ended with no critical failure and no
\* suspension, every non-critical step whose dependencies are bare step names, one
\* of them FAILED and non-critical, the others COMPLETED, was started (it is neither
\* SKIPPED nor PENDING)
C13_DependentsOfNonCriticalFailureRun ==
    \A s \in NormalSteps : (state[s] = FAILED /\ ~steps[s].fail_on_error) =>
        /\ error_step # s
        /\ (Finished /\ ~CriticalFailure /\ suspended_steps = {}) =>
              \A t \in NormalSteps :
                  ( /\ ~steps[t].fail_on_error
                    /\ [step |-> s, when |-> NoDep] \in steps[t].depends_on
                    /\ \A d \in steps[t].depends_on :
                          d.when = NoDep /\ (d.step # s => state[d.step] = COMPLETED) )
                      => (started[t] > 0 /\ state[t] \notin {SKIPPED, PENDING})

C15_ExactlyOneStatus ==
    [][ /\ \A s \in Steps : state'[s] \in StepStatus
        /\ Cardinality(running_steps') + Cardinality(completed_steps')
             + Cardinality(failed_steps') + Cardinality(skipped_steps')
             + Cardinality(suspended_steps')
             = Cardinality(running_steps' \cup completed_steps' \cup failed_steps'
                            \cup skipped_steps' \cup suspended_steps')
        /\ \A s \in Steps :
              (state[s] = FAILED /\ ~steps[s].fail_on_error) => state'[s] = FAILED ]_vars

\* the task of a non-critical step whose plugin raised has returned and was
\* processed: the step is FAILED
C15_Witness ==
    \E s \in Steps :
        /\ ~steps[s].fail_on_error /\ steps[s].plugin = "PluginError"
        /\ invocations[s] = 1 /\ tasks[s] = "none"
        /\ state[s] = FAILED

\* C36: the finally_errors of the PipelineExecutionError a run ends with hold one
\* entry for every FAILED finally step and no entry for any other step
C36_OneEntryPerFailedFinallyStep ==
    (Finished /\ outcome = "PipelineExecutionError") =>
        \A s \in Steps :
            finally_errors[s] = IF s \in FinallySteps /\ state[s] = FAILED THEN 1 ELSE 0

\* every entry is the error of a FAILED finally step, and every FAILED finally step
\* has an entry
C36_EntriesAreOfFailedFinallySteps ==
    (Finished /\ outcome = "PipelineExecutionError") =>
        \A s \in Steps :
            finally_errors[s] > 0 <=> (s \in FinallySteps /\ state[s] = FAILED)

\* step_progress[step_name]["status"] of the task after every StepProgress event of
\* the run was applied: the status of the last event of the step; a step without
\* an event has no entry
StepProgressStatus(s) ==
    IF progress[s] = {} THEN "absent"
    ELSE IF state[s] \in progress[s] THEN state[s] ELSE RUNNING

\* "Update overall task status based on step statuses" in update_step_progress
TaskStatus(sp) ==
    LET critical_failures == {s \in Steps : sp[s] = FAILED /\ steps[s].fail_on_error}
        non_critical_failures == {s \in Steps : sp[s] = FAILED /\ ~steps[s].fail_on_error}
        running == {s \in Steps : sp[s] = RUNNING}
        completed == {s \in Steps : sp[s] = COMPLETED}
        suspended == {s \in Steps : sp[s] = SUSPENDED}
    IN IF critical_failures # {} THEN "failed"
       ELSE IF suspended # {} THEN "suspended"
       ELSE IF running = {} /\ Cardinality(completed) = Cardinality(Steps)
       THEN "completed"
       ELSE IF running # {} THEN "running"
       ELSE IF /\ non_critical_failures # {}
               /\ Cardinality(completed) + Cardinality(non_critical_failures)
                     = Cardinality(Steps)
       THEN "completed_with_errors"
       ELSE IF completed = {} /\ non_critical_failures = {} THEN "pending"
       ELSE "running"

\* C38: after the progress events of a run whose steps all ended COMPLETED or
\* SKIPPED were applied by update_step_progress, the status of the task is completed
C38_CompletedOrSkippedRunIsCompleted ==
    (Finished /\ \A s \in Steps : state[s] \in {COMPLETED, SKIPPED}) =>
        TaskStatus([s \in Steps |-> StepProgressStatus(s)]) = "completed"

\* the same for the runs whose steps all ended COMPLETED
C38_CompletedRunIsCompleted ==
    (Finished /\ \A s \in Steps : state[s] = COMPLETED) =>
        TaskStatus([s \in Steps |-> StepProgressStatus(s)]) = "completed"

\* C33: a run that ends without a suspension and without a critical failure
\* leaves every non-finally step COMPLETED, FAILED or SKIPPED, none PENDING
C33_NormalStepsTerminalAtEnd ==
    (Finished /\ suspended_steps = {} /\ normal_phase_error = "none") =>
        \A s \in NormalSteps : state[s] \in {COMPLETED, FAILED, SKIPPED}

\* C34: a run that ends with a SUSPENDED step has written a checkpoint and raises
\* PipelineSuspendedException, whether or not another step failed critically
C34_SuspendedStepEndsInCheckpoint ==
    (Finished /\ suspended_steps # {}) =>
        /\ checkpoint # NoCheckpoint
        /\ checkpoint.suspended_at_steps = suspended_steps
        /\ outcome = "PipelineSuspendedException"

\* the same for the runs in which no step failed critically
C34_SuspendedWithoutCriticalFailure ==
    (Finished /\ suspended_steps # {} /\ ~CriticalFailure) =>
        /\ checkpoint # NoCheckpoint
        /\ outcome = "PipelineSuspendedException"

(***************************************************************************)
(* The end of executeDAG (SpecTerminates).                                 *)
(***************************************************************************)
\* C31: every run ends: the normal phase and the finally phase leave their loops
\* and executeDAG returns or raises
C31_ExecuteDAGTerminates == <>(pc = "done")

\* a run ended after both phases had started, awaited and processed tasks
C31_Witness ==
    /\ pc = "done"
    /\ \E s \in NormalSteps : state[s] \in {COMPLETED, FAILED} /\ invocations[s] > 0
    /\ \E s \in FinallySteps : state[s] \in {COMPLETED, FAILED} /\ invocations[s] > 0

(***************************************************************************)
(* Runs of one DAGExecutor, one after the other (SpecRerun).               *)
(***************************************************************************)
\* C32: a non-resume executeDAG call starts with every step PENDING and with an
\* empty suspension record, also after an earlier run of the same executor
C32_RunStartsPendingAndUnsuspended ==
    [][(pc = "done" /\ pc' = "normal") =>
          /\ \A s \in Steps : state'[s] = PENDING
          /\ suspend_context' = {}]_vars

(***************************************************************************)
(* Properties of the progress events and of loop steps (SpecLoop).         *)
(***************************************************************************)
\* _create_step_task marked the step RUNNING (its task was created)
WasRunning(s) == started[s] > 0 /\ steps[s].plugin # "init_error"

\* C16: the callback got an event with the status of every step that is COMPLETED,
\* FAILED or SUSPENDED, and a RUNNING event of every step, loop steps included, that
\* was marked RUNNING and has left that status
C16_TransitionsReported ==
    \A s \in Steps :
        /\ state[s] \in {COMPLETED, FAILED, SUSPENDED} => state[s] \in progress[s]
        /\ (WasRunning(s) /\ state[s] # RUNNING) => RUNNING \in progress[s]

\* C17: when the run has ended, whatever its outcome, the callback got exactly one
\* "pipeline_summary" event
C17_OneSummaryPerRun == Finished => summaries = 1

\* the task of loop step s has ended / was processed by _process_completed_task
LoopEnded(s) == started[s] > 0 /\ tasks[s] \in {"none", "returned", "raised_error"}
LoopProcessed(s) == started[s] > 0 /\ tasks[s] = "none"
SomeIterationFailed == \E i \in 1..Len(iterations) : iterations[i] = "failed"

\* C18: with fail_fast no iteration follows a failed one; without fail_fast the loop
\* ends only when every item was iterated (collection, count) or the condition is
\* falsy or max_iterations is reached (condition); in both cases the loop raises, and
\* the loop step is FAILED once its task is processed, if and only if an iteration
\* failed (otherwise it is COMPLETED)
C18_FailFastAndContinue ==
    \A s \in Steps : IsLoopStep(s) =>
        /\ loop_config.fail_fast =>
              \A i \in 1..Len(iterations) :
                  iterations[i] = "failed" => i = Len(iterations)
        /\ (LoopEnded(s) /\ ~loop_config.fail_fast) =>
              IF ConditionBased(loop_config)
              THEN /\ Len(iterations) = loop_counter
                   /\ loop_counter = loop_config.max_iterations \/ ~condition_value
              ELSE Len(iterations) = Items(loop_config)
        /\ (LoopEnded(s) /\ tasks[s] # "none") =>
              (tasks[s] = "raised_error" <=> SomeIterationFailed)
        /\ LoopProcessed(s) =>
              /\ state[s] = FAILED <=> SomeIterationFailed
              /\ state[s] = COMPLETED <=> ~SomeIterationFailed

\* a loop without fail_fast went on after a failed iteration and its step is FAILED
C18_Witness ==
    \E s \in Steps :
        /\ IsLoopStep(s) /\ ~loop_config.fail_fast /\ LoopProcessed(s)
        /\ iterations = <<"failed", "ok">>
        /\ state[s] = FAILED

\* the loop of step s is condition-based, max_iterations iterations were executed and
\* the condition is still truthy
CapReached(s) ==
    /\ IsLoopStep(s) /\ ConditionBased(loop_config)
    /\ Len(iterations) = loop_config.max_iterations
    /\ condition_value

\* C19: a condition loop never executes more than max_iterations iterations, whatever
\* the body writes to the condition key; when the condition is still truthy after
\* max_iterations iterations the loop ends, and its step is COMPLETED if no
\* iteration failed
C19_MaxIterationsCap ==
    \A s \in Steps : (IsLoopStep(s) /\ ConditionBased(loop_config)) =>
        /\ Len(iterations) <= loop_config.max_iterations
        /\ tasks[s] = "in_body" => Len(iterations) < loop_config.max_iterations
        /\ (CapReached(s) /\ LoopProcessed(s) /\ ~SomeIterationFailed)
              => state[s] = COMPLETED

\* two iterations of a loop with max_iterations = 2 succeeded, the condition is
\* still truthy, and the loop step is COMPLETED
C19_Witness ==
    \E s \in Steps :
        /\ CapReached(s) /\ LoopProcessed(s)
        /\ loop_config.max_iterations = 2 /\ iterations = <<"ok", "ok">>
        /\ state[s] = COMPLETED

\* C19 as stated: the loop step is COMPLETED whenever the cap ended the loop
C19_CapAlwaysCompleted ==
    \A s \in Steps : (IsLoopStep(s) /\ ConditionBased(loop_config)) =>
        /\ Len(iterations) <= loop_config.max_iterations
        /\ tasks[s] = "in_body" => Len(iterations) < loop_config.max_iterations
        /\ (CapReached(s) /\ LoopProcessed(s)) => state[s] = COMPLETED

\* C20: a loop step whose collection is empty executes no iteration, whatever its
\* count, condition, max_iterations and fail_fast are, and it is COMPLETED once its
\* task is processed
C20_EmptyCollectionNoIteration ==
    \A s \in Steps : (IsLoopStep(s) /\ loop_config.collection = 0) =>
        /\ iterations = <<>>
        /\ tasks[s] # "in_body"
        /\ LoopProcessed(s) => state[s] = COMPLETED

(***************************************************************************)
(* Properties of a loop whose body suspends (SpecLoopSuspend).             *)
(***************************************************************************)
\* C21: when a body run of the loop ended with a suspension, a checkpoint exists, the
\* loop step is neither FAILED nor reported as failed, and the run, once it has
\* ended, has raised PipelineSuspendedException
C21_LoopSuspensionEndsRunSuspended ==
    \A s \in Steps :
        (IsLoopStep(s) /\ \E i \in 1..Len(iterations) : iterations[i] = "suspended") =>
            /\ checkpoint # NoCheckpoint
            /\ state[s] # FAILED /\ FAILED \notin progress[s]
            /\ Finished => outcome = "PipelineSuspendedException"

(***************************************************************************)
(* Properties of the plugin calls of loop bodies (SpecLoopWorkers).        *)
(***************************************************************************)
\* the plugin calls in progress: those of the executor that runs the pipeline and
\* those of the body executor of its loop step
InvocationsInProgress ==
    Cardinality({s \in Steps : tasks[s] = "invoking"}) + (max_workers - body_semaphore)

\* C22: the number of plugin invocations in progress, counted across the parent
\* executor and the body executor of its loop, never exceeds max_workers
C22_TotalInvocationsBounded == InvocationsInProgress <= max_workers

(***************************************************************************)
(* Properties of the context of a retried plugin (SpecScope).              *)
(***************************************************************************)
\* C24: no context write of a failed attempt is visible to a later attempt: what the
\* plugin finds under every key when it is invoked is what the run context held
\* when the step started
C24_NoWriteOfFailedAttemptVisible ==
    \A k \in ContextKeys : seen[k] = Original

\* the part that holds: a write to a field of the ExecutionContext stays in the child
\* of the attempt
C24_FieldWritesStayInChild ==
    context_class = "ExecutionContext" => \A k \in FieldKeys : seen[k] = Original

(***************************************************************************)
(* Properties of the saved artifacts of a step (SpecSaving).               *)
(***************************************************************************)
\* the artifacts the plugin of step s recorded
OwnArtifacts(s) == {<<s, n>> : n \in 1..recorded[s]}

Elements(q) == {q[i] : i \in 1..Len(q)}

\* C25: when a step completes, its saved_artifacts holds exactly the artifacts its
\* own plugin call recorded, each once
C25_SavedArtifactsExactlyOwn ==
    \A s \in SavingSteps :
        saving_pc[s] = "completed" =>
            /\ Elements(saved_artifacts[s]) = OwnArtifacts(s)
            /\ Len(saved_artifacts[s]) = recorded[s]

\* the part about other steps alone: no artifact of another step
C25_NoForeignArtifact ==
    \A s \in SavingSteps :
        saving_pc[s] = "completed" => Elements(saved_artifacts[s]) \subseteq OwnArtifacts(s)

\* the part about a step's own artifacts alone: none is missing
C25_NoOwnArtifactMissing ==
    \A s \in SavingSteps :
        saving_pc[s] = "completed" => OwnArtifacts(s) \subseteq Elements(saved_artifacts[s])

(***************************************************************************)
(* Properties of the artifact middleware (SpecChain).                      *)
(***************************************************************************)
\* the chain of a command has run a handler and has not ended
ChainOpen(c) == chain_pos[c] > 0 /\ chain_pc[c] # "returned"

\* C26: the handler chains of two commands never interleave: the chains of two
\* commands are never open together, and between two handler runs of one command
\* no handler of another command has run
C26_ChainsNeverInterleave ==
    /\ \A c, d \in Commands : (ChainOpen(c) /\ ChainOpen(d)) => c = d
    /\ \A i, j, k \in 1..Len(handled) :
          (i < j /\ j < k /\ handled[i][1] = handled[k][1]) =>
              handled[j][1] = handled[i][1]

\* two commands went through the whole chain, one after the other
C26_Witness ==
    \E c, d \in Commands :
        /\ c # d
        /\ chain_pc[c] = "returned" /\ chain_pos[c] = Len(Handlers)
        /\ chain_pc[d] = "returned" /\ chain_pos[d] = Len(Handlers)

\* the number of runs of handler h on command c
RunsOf(c, h) ==
    Cardinality({i \in 1..Len(handled) :
                    handled[i][1] = c /\ Handlers[handled[i][2]] = h})

\* C37: a save_artifact call whose command went through the whole chain has run
\* each default handler once, and so has one record in command_history
\* (record_command appends one on each of its runs)
C37_DefaultHandlersRunOnce ==
    \A c \in Commands :
        (chain_pc[c] = "returned" /\ chain_pos[c] = Len(Handlers)) =>
            \A i \in 1..Len(DefaultHandlers) : RunsOf(c, DefaultHandlers[i]) = 1

\* update_task_history, registered once, runs once on such a command
C37_TaskHistoryHandlerRunsOnce ==
    \A c \in Commands :
        (chain_pc[c] = "returned" /\ chain_pos[c] = Len(Handlers)) =>
            RunsOf(c, "update_task_history") = 1

(***************************************************************************)
(* Properties of the resume of a collection loop (SpecSkip).               *)
(***************************************************************************)
\* the indexes from i to n - 1, in order
IndexesFrom(i, n) == [j \in 1..(n - i) |-> i + j - 1]

\* C27: on a resume with the items 0..k-1 marked as processed, the loop runs the
\* iterations k, k+1, ... in order and no iteration below k
C27_ResumeStartsAtFirstUnprocessed ==
    (loop_iteration # Unset /\ skip_pc = "returned") =>
        executed = IndexesFrom(processed_count, Len(collection))

\* the same for collections without repeated items
C27_DistinctItemsResumeAtK ==
    (/\ loop_iteration # Unset /\ skip_pc = "returned"
     /\ \A i, j \in 1..Len(collection) : collection[i] = collection[j] => i = j) =>
        executed = IndexesFrom(processed_count, Len(collection))

(***************************************************************************)
(* Properties of validate_pipeline (SpecValidation).                       *)
(***************************************************************************)
RECURSIVE PathWithin(_, _, _, _)
\* the depends_on graph has a path of at most n edges from s to t
PathWithin(def, s, t, n) ==
    /\ n > 0
    /\ s \in Steps
    /\ \E d \in def.steps[s].depends_on : d = t \/ PathWithin(def, d, t, n - 1)

\* the depends_on graph contains a directed cycle
HasCycle(def) == \E s \in Steps : PathWithin(def, s, s, Cardinality(Steps))

\* C28: validate_pipeline raises an error for every definition whose depends_on graph
\* contains a cycle, and raises none for an acyclic definition that passes the
\* other checks
C28_CyclesRejectedAcyclicAccepted ==
    validation # "none" =>
        /\ HasCycle(definition) => validation = "ValueError"
        /\ (OtherChecksPass(definition) /\ ~HasCycle(definition)) => validation = "returned"

\* a definition that passes the other checks was rejected for its cycle
C28_Witness ==
    /\ validation = "ValueError"
    /\ OtherChecksPass(definition)
    /\ HasCycle(definition)

(***************************************************************************)
(* Properties of tools/call (SpecMcp).                                     *)
(***************************************************************************)
\* the tool is unregistered, unavailable, or has a dependency that is missing
MustBeRejected(t) ==
    \/ ~tool_registry[t].registered
    \/ ~tool_registry[t].is_available
    \/ \E d \in tool_registry[t].dependencies :
          ~(tool_registry[d].registered /\ tool_registry[d].is_available)

\* C29: a call of a tool that is unregistered, unavailable or lacks a dependency is
\* answered with an error, creates no execution record and leaves every
\* usage_count as it was
C29_RejectedCallsExecuteNothing ==
    [][(calls' # calls /\ MustBeRejected(last_call'.tool)) =>
          /\ last_call'.status \in {400, 404, 503}
          /\ execution_updates' = execution_updates
          /\ usage_count' = usage_count]_vars

\* a call was rejected for a missing dependency after a call that was executed
C29_Witness ==
    /\ last_call.status = 400
    /\ \E t \in ToolNames : usage_count[t] > 0

(***************************************************************************)
(* Properties of get_execution_order (SpecOrder).                          *)
(***************************************************************************)
Listed == {tool_names[i] : i \in DOMAIN tool_names}

\* b is a dependency of a and both are in the list
ListedDependency(a, b) ==
    a \in Listed /\ b \in Listed /\ b \in tool_dependencies[a]

RECURSIVE DependsWithin(_, _, _)
\* a chain of at most n listed dependencies leads from a to b
DependsWithin(a, b, n) ==
    /\ n > 0
    /\ \/ ListedDependency(a, b)
       \/ \E c \in Listed : ListedDependency(a, c) /\ DependsWithin(c, b, n - 1)

RestrictedCyclic == \E a \in Listed : DependsWithin(a, a, Cardinality(Listed))

PositionsOf(t) == {i \in DOMAIN execution_order.result : execution_order.result[i] = t}

\* C30: for an acyclic restricted relation the result holds each listed name
\* exactly once and no other name, every tool after its listed dependencies;
\* for a cyclic one ValueError is raised
C30_ExecutionOrderIsTopological ==
    execution_order.done =>
        IF RestrictedCyclic
        THEN execution_order.raised
        ELSE /\ ~execution_order.raised
             /\ \A t \in ToolNames :
                   Cardinality(PositionsOf(t)) = IF t \in Listed THEN 1 ELSE 0
             /\ \A a, b \in Listed :
                   ListedDependency(a, b) =>
                       \A i \in PositionsOf(a), j \in PositionsOf(b) : j < i

\* a list with a repeated name in which a tool stands before its dependency was sorted
C30_Witness ==
    /\ execution_order.done
    /\ ~execution_order.raised
    /\ Len(tool_names) > Cardinality(Listed)
    /\ \E i, j \in DOMAIN tool_names :
          i < j /\ ListedDependency(tool_names[i], tool_names[j])

(***************************************************************************)
(* Properties of the tool executions and progress streams (SpecStream).    *)
(***************************************************************************)
\* the updates execution c has appended so far
OwnUpdates(c) ==
    CASE exec_pc[c] = "idle" -> <<>>
      [] ToolType(exec_tool[c]) = "pipeline" -> <<Update(c, FAILED)>>
      [] exec_pc[c] = "running" -> <<Update(c, RUNNING)>>
      [] OTHER -> <<Update(c, RUNNING),
                    Update(c, IF exec_raises[c] THEN FAILED ELSE COMPLETED)>>

\* C39: the executions have distinct execution ids, also two concurrent calls of
\* one tool, and the list of an execution holds the updates of that execution and
\* no other (it was not reset and not extended by another execution)
C39_ExecutionIdsDistinct ==
    /\ \A c, d \in Executions :
          (c # d /\ exec_pc[c] # "idle" /\ exec_pc[d] # "idle") => exec_id[c] # exec_id[d]
    /\ \A c \in Executions :
          exec_pc[c] # "idle" => update_lists[exec_id[c]] = OwnUpdates(c)

\* the same for the executions of different tools or of different seconds
C39_IdsOfOtherToolOrSecondDistinct ==
    \A c, d \in Executions :
        (/\ c # d /\ exec_pc[c] # "idle" /\ exec_pc[d] # "idle"
         /\ (exec_tool[c] # exec_tool[d] \/ exec_id[c][2] # exec_id[d][2]))
            => /\ exec_id[c] # exec_id[d]
               /\ update_lists[exec_id[c]] = OwnUpdates(c)

\* C40: the stream of an execution that has ended, once it has ended, has
\* delivered every update of the execution once and in order
C40_EndedStreamDeliveredEveryUpdate ==
    \A k \in Executions :
        (stream_pc[k] = "ended" /\ exec_pc[k] = "done") => delivered[k] = OwnUpdates(k)

\* every execution ends with an update COMPLETED or FAILED and every stream ends
C40_ExecutionsAndStreamsEnd ==
    <>(\A k \in Executions :
          /\ exec_pc[k] = "done" /\ ExecutionComplete(update_lists[exec_id[k]])
          /\ stream_pc[k] = "ended")

(***************************************************************************)
(* Properties of task_history.json (SpecHistory).                          *)
(***************************************************************************)
\* what a mutation makes of the tasks map when nothing runs beside it
MutationEffect(m, p) ==
    CASE mutation[p].kind = "update_task_status" -> UpdateTaskStatus(m, 0, mutation[p])
      [] mutation[p].kind = "update_step_progress" -> UpdateStepProgress(m, 0, mutation[p])
      [] mutation[p].kind = "create_task" -> AppendHistoryRecord(m, p, CreatedTaskRecord)
      [] OTHER -> IF m[0].exists THEN AppendHistoryRecord(m, 0, ArtifactRecord(m, 0, p))
                  ELSE m

\* the files the mutations leave when they run one after the other, in any order
SerialHistories ==
    {MutationEffect(MutationEffect(InitialHistory, p), q) :
        <<p, q>> \in {o \in Mutators \X Mutators : o[1] # o[2]}}

\* C23: no effect is lost: when all mutations are done the file is what the
\* mutations make of it in one of their orders
C23_NoMutationLost ==
    (\A p \in Mutators : mutator_pc[p] = "done") => history_file \in SerialHistories

\* a mutation reads and writes the file within one hold of the lock: a caller that
\* has read the tasks and not yet written them holds the lock
C23_ReadAndWriteInOneHold ==
    \A p \in Mutators :
        mutator_pc[p] \in {"read", "modified"} => file_lock = p

(***************************************************************************)
(* Properties of resume_from_checkpoint (SpecResume).                      *)
(***************************************************************************)
\* C7: at most one resume_from_checkpoint call is in progress at any time, and a
\* call that was refused lost the flag to another call and has restored nothing
C7_AtMostOneResumeInProgress ==
    /\ \A r, q \in Resumers : (InProgress(r) /\ InProgress(q)) => r = q
    /\ \A r \in Resumers : resume_pc[r] = "refused" =>
          /\ restores[r] = 0
          /\ \E q \in Resumers \ {r} :
                resume_pc[q] \in {"resuming", "restored", "executing", "completed", "failed"}

\* C7 witness: one call is refused while the other one executes the pipeline
C7_Witness ==
    \E r, q \in Resumers :
        /\ resume_pc[r] = "refused"
        /\ resume_pc[q] = "executing"
        /\ \E s \in Steps : started[s] > 0

\* C8: when a resume has restored the checkpoint and is about to schedule, every
\* step the checkpoint records as suspended is COMPLETED with a synthesized output
\* in the context (its resume data carries the completion marker) or PENDING with
\* its error cleared (every other case)
C8_SuspendedStepsResumed ==
    \A r \in Resumers : resume_pc[r] = "restored" =>
        \A s \in checkpoint.suspended_at_steps :
            IF resume_data[s] \in CompletionMarker
            THEN state[s] = COMPLETED /\ context[s] = "synthesized"
            ELSE state[s] = PENDING /\ ~step_error[s]

\* C9: when a resume has run the pipeline to completion (the suspended steps got
\* resume data and were run again, executeDAG returned, the resume was completed, no
\* step is left SUSPENDED), the COMPLETED steps are those of the run in which no
\* plugin suspends
C9_SameCompletedSteps ==
    (/\ pc = "done"
     /\ outcome = "returned"
     /\ suspended_steps = {}
     /\ \A s \in Steps : resume_data[s] \notin CompletionMarker
     /\ \E r \in Resumers : resume_pc[r] = "completed"
     /\ \A r \in Resumers : ~InProgress(r))
        => completed_steps = reference.completed

\* C35: once a resume_from_checkpoint call has ended, by success, by failure or by
\* a new suspension, and no other resume is in progress, the resume flag is clear
C35_EndedResumeReleasesFlag ==
    \A r \in Resumers :
        (/\ resume_pc[r] \in {"completed", "failed"}
         /\ \A q \in Resumers : ~InProgress(q))
            => resume_flag = "clear"

\* the same for the calls that ended by success
C35_CompletedResumeReleasesFlag ==
    \A r \in Resumers :
        (/\ resume_pc[r] = "completed"
         /\ \A q \in Resumers : q # r => resume_pc[q] \in {"idle", "loaded", "cleaned"})
            => resume_flag = "clear"

(***************************************************************************)
(* Properties of the retry policy (SpecRetry).                             *)
(***************************************************************************)
\* the back-off sleeps before attempts 2..n: RETRY_DELAY * 1, ..., RETRY_DELAY * (n - 1)
LinearBackoff(n) == [k \in 1..(n - 1) |-> RETRY_DELAY * k]

\* C10: a step whose plugin raises RetryablePluginError on every attempt is invoked
\* at most max_retries times, sleeps RETRY_DELAY * k after its k-th failure before
\* the next attempt, and is marked FAILED exactly when the attempt number max_retries
\* has failed
C10_RetriesThenFails ==
    \A s \in Steps : steps[s].plugin = "RetryablePluginError" =>
        /\ invocations[s] <= max_retries
        /\ attempt[s] <= invocations[s] /\ invocations[s] <= attempt[s] + 1
        /\ delays[s] = LinearBackoff(attempt[s] + 1)
        /\ state[s] = FAILED =>
              invocations[s] = max_retries /\ delays[s] = LinearBackoff(max_retries)
        /\ (invocations[s] = max_retries /\ tasks[s] # "invoking") => state[s] = FAILED

\* C10 witness: a step of that kind has failed after max_retries invocations
C10_Witness ==
    \E s \in Steps :
        /\ steps[s].plugin = "RetryablePluginError"
        /\ state[s] = FAILED
        /\ invocations[s] = max_retries
        /\ delays[s] = <<RETRY_DELAY, RETRY_DELAY * 2>>

(***************************************************************************)
(* Properties of the fatal plugin errors (SpecErrors).                     *)
(***************************************************************************)
\* C11: a step whose plugin raises PluginInputError or PluginError is invoked at
\* most once, never sleeps for a retry, and is FAILED exactly when that one call
\* has ended
C11_FatalErrorsNotRetried ==
    \A s \in Steps : steps[s].plugin \in {"PluginError", "PluginInputError"} =>
        /\ invocations[s] <= 1
        /\ attempt[s] = 0 /\ delays[s] = <<>>
        /\ state[s] = FAILED => invocations[s] = 1
        /\ (invocations[s] = 1 /\ tasks[s] # "invoking") => state[s] = FAILED

\* C11 witness: a step of each kind has failed after its only invocation
C11_Witness ==
    \E s, t \in Steps :
        /\ steps[s].plugin = "PluginError" /\ steps[t].plugin = "PluginInputError"
        /\ state[s] = FAILED /\ state[t] = FAILED
        /\ invocations[s] = 1 /\ invocations[t] = 1

====
